---- MODULE Spec2Model ----
(***************************************************************************)
(* A model of the xhype hypervisor (src/xhype/xhype): the virtio-mmio      *)
(* transport and its virtqueue workers, the I/O APIC dispatch thread, the  *)
(* per-vCPU run loop, and the VMManager / VirtualMachine life cycle.       *)
(*                                                                         *)
(* Each thread of the program is a process of the model; the position of a *)
(* thread in its code is its pc variable.  Channels (crossbeam unbounded)  *)
(* are sequences plus the set of live senders.                             *)
(***************************************************************************)
EXTENDS Integers, Sequences, FiniteSets, TLC

(***************************************************************************)
(* Bounds of the model.                                                    *)
(***************************************************************************)
\* longest content of a channel the model explores
MaxChan == 1
\* number of QueueReady 0->1 transitions explored
MaxEpoch == 2
\* largest avail index the driver publishes
MaxAvail == 1
\* number of device resets explored
MaxResets == 1
\* number of IRQs sent on the IRQ channel
MaxIrqs == 2
\* size and host address of the VM's low memory (gpa2hva)
LowMemSize == 4
LowMemStart == 16

(***************************************************************************)
(* Program constants.                                                      *)
(***************************************************************************)
VIRTIO_CONFIG_S_ACKNOWLEDGE == 1
VIRTIO_CONFIG_S_DRIVER == 2
VIRTIO_CONFIG_S_DRIVER_OK == 4
VIRTIO_CONFIG_S_FEATURES_OK == 8
VIRTIO_CONFIG_S_FAILED == 128
VIRTIO_INT_VRING == 1
VIRTQ_AVAIL_F_NO_INTERRUPT == 1
\* the rng device has one virtqueue, of at most 64 entries
NumQueues == 1
QNumMax == 64
\* the interrupt line of the modelled virtio device
DevIrq == 5
\* u16 arithmetic of the ring indexes
IdxMod == 65536
\* the queue size the modelled driver programs and lays its rings out for
RingSize == 2

(***************************************************************************)
(* Bit operations on naturals, as Rust computes them on u8 / u32.          *)
(***************************************************************************)
RECURSIVE BitAnd(_, _)
BitAnd(a, b) ==
    IF a = 0 \/ b = 0 THEN 0
    ELSE (IF a % 2 = 1 /\ b % 2 = 1 THEN 1 ELSE 0) + 2 * BitAnd(a \div 2, b \div 2)

RECURSIVE BitOr(_, _)
BitOr(a, b) ==
    IF a = 0 THEN b
    ELSE IF b = 0 THEN a
    ELSE (IF a % 2 = 1 \/ b % 2 = 1 THEN 1 ELSE 0) + 2 * BitOr(a \div 2, b \div 2)

\* a & !b
BitClear(a, b) == a - BitAnd(a, b)

VARIABLES
    \* ---- VirtioDevice (virtio/mod.rs) and its VirtqManager (virtio/virtq.rs)
    status,         \* dev.status: u8
    dri_feat,       \* dev.dri_feat: u64, kept as its halves [lo, hi]
    dri_feat_sel,   \* dev.dri_feat_sel
    qsel,           \* dev.qsel
    qready,         \* vqs[0].qready
    virtq,          \* vqs[0].virtq: [num, desc, avail, used] (guest physical)
    isr,            \* dev.isr (shared with the worker)
    cfg_gen,        \* number of cfg.reset() calls (VirtioRngCfg.gen)
    \* ---- channels between the device and its worker
    taskChan,       \* task channel: Seq of [some, ep]
    virtqChan,      \* virtq channel: Seq of queue definitions
    devAlive,       \* the VirtqManager (both senders) has not been dropped
    \* ---- the worker thread, VirtqManager::serve
    wPc,
    wVirtq,         \* the Virtq<usize> the worker is serving (host virtual)
    current_index,
    avail_index,
    wLen,           \* length_write of the chain being handled
    wHead,          \* ghost: the head get_desc_chain read for that chain
    wTaskEp,        \* ghost: epoch tag of the notification being served
    \* ---- guest memory holding the rings
    availIdx, availFlags, availRing, descTable, usedIdx, usedRing,
    \* ---- ghost history for the claims
    epoch,          \* number of QueueReady 0->1 transitions so far
    lastSent,       \* the definition sent at the most recent 0->1 transition
    featAccepted,   \* a Status write with FEATURES_OK passed verify_feat
    evLog,          \* events of the head being processed: used, isr, irq
    lastNotify,     \* the last QueueNotify write: its value, and a bit it flips
    \* ---- the IRQ channel and the I/O APIC thread (ioapic.rs)
    irqChan,        \* Seq of [irq, seq]; seq is the ghost order of sending
    irqSenders,     \* the live Sender<u32> clones, by holder
    ioPc,
    ioIrq,          \* the element of irqChan being dispatched
    ioDests,        \* vCPU indexes still to deliver to for ioIrq
    ioVector,
    ioValue,        \* IoApic.value: the redirection table DWORDs
    ioReg,          \* IoApic.reg
    vectorSenders,  \* vm.vector_senders is Some(..)
    vcpuCreated,    \* vcpu_ids[0] holds the id of a live vCPU
    \* ---- the vCPU thread: GuestThread::run_on / run_on_inner (lib.rs)
    pc,
    reason,         \* the exit being handled
    kicked,         \* interrupt_vcpu has asked the running vCPU to exit
    space,          \* memory space the vCPU is bound to
    innerResult,    \* result of run_on_inner
    retval,         \* what run_on returned
    handleResult,   \* HandleResult of the current iteration
    vectorRecv,     \* gth.vector_receiver is Some(..)
    rip,            \* guest RIP (X86Reg::RIP), a RipMod-wide register
    instr_len,      \* VMCS_RO_VMEXIT_INSTR_LEN of the last exit
    irq_ignore,     \* VMCS_GUEST_IGNORE_IRQ (bits 0,1: sti / mov-ss blocking)
    vth,            \* the vthreads: host thread, vCPU and guest function of each
    statics,        \* the statics the vthread functions work on, and their first values
    testPc,         \* where the thread that spawns and joins the vthreads is
    spurious,       \* vm exits taken by vthreads before their function was done
    vcpuDropped,    \* memory space the vCPU was bound to at hv_vcpu_destroy, or "no"
    vmCfg,          \* vm.msr_list and vm.msr_policy
    gst,            \* guest registers, control registers and MSR state of the vCPU
    hx,             \* the last vm exit handler call: its kind and its result
    vectorQ,        \* the vCPU's vector channel: Seq of [vector, seq]
    irr,            \* LAPIC IRR: set of pending vectors
    isr_vec,        \* LAPIC stack of in-service vectors
    entryValid,     \* VMCS_CTRL_VMENTRY_IRQ_INFO has its valid bit set
    irqWnd,         \* CPU_BASED_IRQ_WND is set in VMCS_CTRL_CPU_BASED
    tpr,            \* LAPIC task priority register (apic_page at OFFSET_TPR)
    ppr,            \* LAPIC processor priority register (apic_page at OFFSET_PPR)
    entryVec,       \* the vector field of VMCS_CTRL_VMENTRY_IRQ_INFO
    rflags_if,      \* RFLAGS.IF as inject_interrupt last read it
    lapic,          \* the other registers of apic_page, next_timer and timer_period
    now,            \* mach_absolute_time of the host, in nanoseconds
    \* ---- ghost history of the IRQ path
    sendSeq,        \* number of IRQs sent so far
    recvLog,        \* seq tags of the IRQs in the order the I/O APIC thread took them
    pushLog,        \* seq tags of the IRQs whose vector was pushed to vCPU 0
    drained,        \* vectors taken from vector_receiver in this iteration
    lateSeq,        \* tags of the vectors at the head of the queue for which
                    \* interrupt_vcpu was called while the vCPU handled an exit
    firedSeq,       \* tags of vectors set in IRR in this iteration
    \* ---- VMManager, VirtualMachine and the serial input thread
    hvVm,           \* the host primitive holds a VM for this process
    vmm,            \* per owner: the VMManager it holds, if any
    newResult,      \* per owner: result of its last VMManager::new
    vm,             \* none | alive | dropped
    serPc,
    \* ---- ghost: the unimplemented!/panic! sites a host thread has died at
    panicSite,
    \* ---- run_on_inner: the EPT faults that no emulated window claims
    last_ept_gpa,   \* address of the last such fault
    ept_count,      \* how often it has been seen again
    eptRun,         \* ghost: [gpa, n], the last n such faults were all at gpa
    \* ---- the seed of the VMCS control fields
    vmcs_ctrl       \* the last call of gen_exec_ctrl: [cap, one, zero, r, res]

virtioVars == <<status, dri_feat, dri_feat_sel, qsel, qready, virtq, isr, cfg_gen>>
chanVars == <<taskChan, virtqChan, devAlive>>
workerVars == <<wPc, wVirtq, current_index, avail_index, wLen, wHead, wTaskEp>>
memVars == <<availIdx, availFlags, availRing, descTable, usedIdx, usedRing>>
ghostVars == <<epoch, lastSent, featAccepted, evLog, lastNotify>>
irqVars == <<irqChan, irqSenders, sendSeq>>
ioVars == <<ioPc, ioIrq, ioDests, ioVector, ioValue, ioReg, vectorSenders, vcpuCreated>>
cpuVars == <<pc, reason, kicked, space, innerResult, retval, handleResult, vectorRecv>>
timerVars == <<lapic, now>>
apicVars == <<irr, isr_vec, entryValid, irqWnd, tpr, ppr, entryVec, rflags_if, timerVars>>
regVars == <<rip, instr_len, irq_ignore>>
vthVars == <<vth, statics, testPc, spurious>>
eptVars == <<last_ept_gpa, ept_count, eptRun>>
exitVars == <<vmCfg, gst, hx, eptVars, vmcs_ctrl>>
sideVars == <<vthVars, vcpuDropped, exitVars>>
pathVars == <<vectorQ, recvLog, pushLog, drained, lateSeq, firedSeq>>
lifeVars == <<hvVm, vmm, newResult, vm, serPc>>

vars == <<virtioVars, chanVars, workerVars, memVars, ghostVars, irqVars, ioVars,
          cpuVars, regVars, sideVars, apicVars, pathVars, lifeVars, panicSite>>

notVirtio == <<irqVars, ioVars, cpuVars, regVars, sideVars, apicVars, pathVars, lifeVars, panicSite>>

(***************************************************************************)
(* Inputs the guest driver writes to the device registers.                 *)
(***************************************************************************)
StatusVals == {0, 1, 2, 3, 11, 15, 128}
FeatVals == {0, 1}
SelVals == {0, 1}
NumVals == {RingSize, QNumMax + 1}
AckVals == {1}
AddrLowVals == {1}
AddrHighVals == {0}
QueueFields == {"desc", "avail", "used"}
Heads == {0, 1}

HasBit(v, b) == BitAnd(v, b) # 0

(***************************************************************************)
(* virtio/mod.rs                                                           *)
(***************************************************************************)
\* dev_feat of the rng device: 1 << VIRTIO_F_VERSION_1 (bit 32)
dev_feat == [lo |-> 0, hi |-> 1]

\* a verify_feat that would only look for VIRTIO_F_VERSION_1
verify_feat_version_only(feat) == BitAnd(feat.hi, 1) # 0

\* VirtioDevice::verify_feat: Ok(()) is TRUE
verify_feat(feat) ==
    IF BitAnd(feat.hi, 1) = 0 THEN FALSE
    ELSE IF BitClear(feat.lo, dev_feat.lo) # 0 \/ BitClear(feat.hi, dev_feat.hi) # 0
         THEN FALSE
    ELSE TRUE

(***************************************************************************)
(* virtio/mmio.rs: virtio_mmio_write, one action per register              *)
(***************************************************************************)
\* the branch of the Status arm that checks the order of the handshake
StatusChecked(st, value, feat) ==
    IF HasBit(value, VIRTIO_CONFIG_S_ACKNOWLEDGE)
       /\ HasBit(value, VIRTIO_CONFIG_S_DRIVER)
       /\ HasBit(value, VIRTIO_CONFIG_S_FEATURES_OK)
       /\ ~HasBit(st, VIRTIO_CONFIG_S_FEATURES_OK)
    THEN LET v1 == IF verify_feat(feat) THEN value
                   ELSE BitClear(value, VIRTIO_CONFIG_S_FEATURES_OK)
         IN  BitClear(v1, VIRTIO_CONFIG_S_DRIVER_OK)
    ELSE value

\* the value virtio_mmio_write stores in dev.status for a Status write
StatusAfterWrite(st, value, feat) ==
    IF value = 0 THEN 0
    ELSE IF BitClear(st, value) # 0 THEN value
    ELSE IF HasBit(st, VIRTIO_CONFIG_S_FAILED) /\ st # value THEN value
    ELSE StatusChecked(st, value, feat)

\* whether this Status write ran verify_feat and it returned Ok
StatusVerifies(st, value, feat) ==
    /\ value # 0
    /\ BitClear(st, value) = 0
    /\ ~(HasBit(st, VIRTIO_CONFIG_S_FAILED) /\ st # value)
    /\ HasBit(value, VIRTIO_CONFIG_S_ACKNOWLEDGE)
    /\ HasBit(value, VIRTIO_CONFIG_S_DRIVER)
    /\ HasBit(value, VIRTIO_CONFIG_S_FEATURES_OK)
    /\ ~HasBit(st, VIRTIO_CONFIG_S_FEATURES_OK)
    /\ verify_feat(feat)

WriteStatus(value) ==
    /\ pc = "dispatch"
    /\ vm = "alive"
    /\ value = 0 => cfg_gen < MaxResets
    /\ IF value = 0
       THEN \* VirtioMmioDev::reset, up to the write of the ISR the worker shares
            /\ dri_feat' = [lo |-> 0, hi |-> 0]
            /\ status' = 0
            /\ isr' = 0
            /\ pc' = "reset"
            /\ UNCHANGED <<qready, cfg_gen, featAccepted>>
       ELSE /\ status' = StatusAfterWrite(status, value, dri_feat)
            /\ featAccepted' = (featAccepted \/ StatusVerifies(status, value, dri_feat))
            /\ UNCHANGED <<dri_feat, isr, qready, cfg_gen, pc>>
    /\ UNCHANGED <<dri_feat_sel, qsel, virtq, chanVars, workerVars, memVars,
                   epoch, lastSent, evLog, lastNotify,
                   irqVars, ioVars, reason, kicked, space, innerResult, retval,
                   handleResult, vectorRecv, regVars, sideVars, apicVars, pathVars, lifeVars, panicSite>>

\* the rest of VirtioMmioDev::reset, and the store of the written 0 in status
ResetQueues ==
    /\ pc = "reset"
    /\ qready' = 0
    /\ cfg_gen' = cfg_gen + 1
    /\ status' = 0
    /\ featAccepted' = FALSE
    /\ pc' = "dispatch"
    /\ UNCHANGED <<dri_feat, dri_feat_sel, qsel, virtq, isr, chanVars, workerVars,
                   memVars, epoch, lastSent, evLog, lastNotify,
                   irqVars, ioVars, reason, kicked, space, innerResult, retval,
                   handleResult, vectorRecv, regVars, sideVars, apicVars, pathVars, lifeVars, panicSite>>

WriteDriverFeatures(value) ==
    /\ pc = "dispatch"
    /\ vm = "alive"
    /\ dri_feat' = IF HasBit(status, VIRTIO_CONFIG_S_FEATURES_OK) THEN dri_feat
                   ELSE IF dri_feat_sel > 0 THEN [dri_feat EXCEPT !.hi = value]
                   ELSE [dri_feat EXCEPT !.lo = value]
    /\ UNCHANGED <<status, dri_feat_sel, qsel, qready, virtq, isr, cfg_gen,
                   chanVars, workerVars, memVars, ghostVars, notVirtio>>

WriteDriverFeaturesSel(value) ==
    /\ pc = "dispatch"
    /\ vm = "alive"
    /\ dri_feat_sel' = value
    /\ UNCHANGED <<status, dri_feat, qsel, qready, virtq, isr, cfg_gen,
                   chanVars, workerVars, memVars, ghostVars, notVirtio>>

WriteQueueSel(value) ==
    /\ pc = "dispatch"
    /\ vm = "alive"
    /\ qsel' = value
    /\ UNCHANGED <<status, dri_feat, dri_feat_sel, qready, virtq, isr, cfg_gen,
                   chanVars, workerVars, memVars, ghostVars, notVirtio>>

WriteQueueNum(value) ==
    /\ pc = "dispatch"
    /\ vm = "alive"
    /\ virtq' = IF qsel < NumQueues /\ value <= QNumMax
                THEN [virtq EXCEPT !.num = value]
                ELSE virtq
    /\ UNCHANGED <<status, dri_feat, dri_feat_sel, qsel, qready, isr, cfg_gen,
                   chanVars, workerVars, memVars, ghostVars, notVirtio>>

\* VirtioMmioDev::selected_vq returns Some
selected_vq == qsel < NumQueues /\ qready = 0

\* set_u64_low / set_u64_high on an address kept as its halves
set_u64_low(num, value) == [num EXCEPT !.lo = value]
set_u64_high(num, value) == [num EXCEPT !.hi = value]

WriteQueueAddr(field, high, value) ==
    /\ pc = "dispatch"
    /\ vm = "alive"
    /\ virtq' = IF selected_vq
                THEN [virtq EXCEPT ![field] =
                         IF high THEN set_u64_high(@, value) ELSE set_u64_low(@, value)]
                ELSE virtq
    /\ UNCHANGED <<status, dri_feat, dri_feat_sel, qsel, qready, isr, cfg_gen,
                   chanVars, workerVars, memVars, ghostVars, notVirtio>>

WriteInterruptAck(value) ==
    /\ pc = "dispatch"
    /\ vm = "alive"
    /\ isr' = BitClear(isr, value)
    /\ UNCHANGED <<status, dri_feat, dri_feat_sel, qsel, qready, virtq, cfg_gen,
                   chanVars, workerVars, memVars, ghostVars, notVirtio>>

\* the receiving end of the worker's channels is gone: send(..).unwrap() panics
WorkerGone == wPc \in {"done", "panicked"}

\* QueueReady arm: what is sent, if anything
ReadySendsVirtq(value) == qready = 0 /\ value = 1

\* a QueueReady arm that would stop a queue without telling its worker
ReadySendsNever(value) == FALSE

ReadySendsNone(value) == qready = 1 /\ value = 0

WriteQueueReady(value) ==
    /\ pc = "dispatch"
    /\ vm = "alive"
    /\ IF qsel < NumQueues
       THEN IF ReadySendsVirtq(value)
            THEN /\ epoch < MaxEpoch
                 /\ Len(virtqChan) < MaxChan
                 /\ IF WorkerGone
                    THEN /\ pc' = "panicked"
                         /\ UNCHANGED <<qready, virtqChan, epoch, lastSent>>
                    ELSE /\ virtqChan' = Append(virtqChan, virtq)
                         /\ qready' = value
                         /\ epoch' = epoch + 1
                         /\ lastSent' = virtq
                         /\ pc' = pc
                 /\ UNCHANGED taskChan
            ELSE IF ReadySendsNone(value)
            THEN /\ Len(taskChan) < MaxChan
                 /\ IF WorkerGone
                    THEN /\ pc' = "panicked"
                         /\ UNCHANGED <<qready, taskChan>>
                    ELSE /\ taskChan' = Append(taskChan, [some |-> FALSE, ep |-> epoch])
                         /\ qready' = value
                         /\ pc' = pc
                 /\ UNCHANGED <<virtqChan, epoch, lastSent>>
            ELSE /\ qready' = value
                 /\ UNCHANGED <<pc, taskChan, virtqChan, epoch, lastSent>>
       ELSE UNCHANGED <<pc, qready, taskChan, virtqChan, epoch, lastSent>>
    /\ UNCHANGED <<status, dri_feat, dri_feat_sel, qsel, virtq, isr, cfg_gen, devAlive,
                   workerVars, memVars, featAccepted, evLog, lastNotify,
                   irqVars, ioVars, reason, kicked, space, innerResult, retval, handleResult,
                   vectorRecv, regVars, sideVars, apicVars, pathVars, lifeVars, panicSite>>

\* a QueueNotify arm that would wake the worker whatever the device status
NotifySendsAlways(st, q_index) == q_index < NumQueues

\* QueueNotify arm: whether the write sends a wake to queue q_index's worker
NotifySends(st, q_index) ==
    HasBit(st, VIRTIO_CONFIG_S_DRIVER_OK) /\ q_index < NumQueues

WriteQueueNotify(value) ==
    /\ pc = "dispatch"
    /\ vm = "alive"
    /\ lastNotify' = [value |-> value, tick |-> 1 - lastNotify.tick]
    /\ IF NotifySends(status, value)
       THEN /\ Len(taskChan) < MaxChan
            /\ IF WorkerGone
               THEN pc' = "panicked" /\ UNCHANGED taskChan
               ELSE /\ taskChan' = Append(taskChan, [some |-> TRUE, ep |-> epoch])
                    /\ pc' = pc
       ELSE UNCHANGED <<pc, taskChan>>
    /\ UNCHANGED <<virtioVars, virtqChan, devAlive, workerVars, memVars,
                   epoch, lastSent, featAccepted, evLog,
                   irqVars, ioVars, reason, kicked, space, innerResult, retval, handleResult,
                   vectorRecv, regVars, sideVars, apicVars, pathVars, lifeVars, panicSite>>


(***************************************************************************)
(* Guest memory: the rings of the queue, written by the guest driver.      *)
(***************************************************************************)
\* descriptor tables the driver lays out: per descriptor its flags and length
DescW == [write |-> TRUE, next |-> -1, len |-> 2]
DescTables ==
    { \* two single writable descriptors
      [i \in Heads |-> DescW],
      \* 0: writable, chained to 1: readable
      [i \in Heads |-> IF i = 0 THEN [write |-> TRUE, next |-> 1, len |-> 2]
                                ELSE [write |-> FALSE, next |-> -1, len |-> 1]],
      \* 0: writable, chained to 1: writable
      [i \in Heads |-> IF i = 0 THEN [write |-> TRUE, next |-> 1, len |-> 2]
                                ELSE [write |-> TRUE, next |-> -1, len |-> 1]] }

GuestPublish(h) ==
    /\ pc = "dispatch"
    \* the driver stops at MaxAvail, also when it reaches it across the wrap
    /\ availIdx # MaxAvail
    /\ availRing' = [availRing EXCEPT ![availIdx % RingSize] = h]
    /\ availIdx' = (availIdx + 1) % IdxMod
    /\ UNCHANGED <<availFlags, descTable, usedIdx, usedRing, virtioVars, chanVars,
                   workerVars, ghostVars, notVirtio>>

\* the driver overwrites the slot of the avail ring it published last
GuestRewrite(h) ==
    /\ pc = "dispatch"
    /\ availIdx > 0
    /\ availRing' = [availRing EXCEPT ![(availIdx - 1) % RingSize] = h]
    /\ UNCHANGED <<availIdx, availFlags, descTable, usedIdx, usedRing, virtioVars,
                   chanVars, workerVars, ghostVars, notVirtio>>

GuestSetFlags(f) ==
    /\ pc = "dispatch"
    /\ availFlags' = f
    /\ UNCHANGED <<availIdx, availRing, descTable, usedIdx, usedRing, virtioVars,
                   chanVars, workerVars, ghostVars, notVirtio>>

(***************************************************************************)
(* virtio/virtq.rs: Virtq and the worker thread VirtqManager::serve        *)
(***************************************************************************)
\* VirtualMachine::new, the converter of a VM with low memory
gpa2hva(gpa) ==
    IF gpa.hi = 0 /\ gpa.lo < LowMemSize
    THEN [lo |-> gpa.lo + LowMemStart, hi |-> 0]
    ELSE gpa

\* Virtq<u64>::to_hva
to_hva(q) ==
    [num |-> q.num, desc |-> gpa2hva(q.desc), avail |-> gpa2hva(q.avail),
     used |-> gpa2hva(q.used)]

\* Virtq::read_avail; index % num panics when num = 0
read_avail(q, index) == availRing[(index % q.num) % RingSize]

\* Virtq::get_desc_chain from descriptor i: [panic, len, writable]
RECURSIVE DescChain(_, _, _, _)
DescChain(i, writable_count, total, fuel) ==
    LET d == descTable[i]
        bad == ~d.write /\ writable_count > 0
        wc == IF d.write THEN writable_count + 1 ELSE writable_count
    IN  IF bad THEN [panic |-> TRUE, len |-> total, writable |-> writable_count,
                         site |-> "get_desc_chain"]
        ELSE IF d.next >= 0 /\ fuel > 0
             THEN DescChain(d.next, wc, total + d.len, fuel - 1)
             ELSE [panic |-> FALSE, len |-> total + d.len, writable |-> wc,
                   site |-> "none"]

\* RngDescHandler::handle_desc_chain: bytes written, or a panic
handle_desc_chain(q, index) ==
    IF q.num = 0 THEN [panic |-> TRUE, len |-> 0, writable |-> 0, site |-> "read_avail"]
    ELSE DescChain(read_avail(q, index), 0, 0, Cardinality(Heads))

ServeRecvVirtq ==
    /\ wPc = "wait_virtq"
    /\ IF virtqChan # <<>>
       THEN /\ wVirtq' = to_hva(Head(virtqChan))
            /\ virtqChan' = Tail(virtqChan)
            /\ current_index' = 0
            /\ wPc' = "wait_task"
            /\ UNCHANGED irqSenders
       ELSE /\ ~devAlive
            /\ wPc' = "done"
            /\ irqSenders' = irqSenders \ {"worker"}
            /\ UNCHANGED <<wVirtq, virtqChan, current_index>>
    /\ UNCHANGED <<avail_index, wLen, wHead, wTaskEp, taskChan, devAlive, virtioVars, memVars,
                   ghostVars, irqChan, sendSeq, ioVars, cpuVars, regVars, sideVars, apicVars, pathVars,
                   lifeVars, panicSite>>

ServeRecvTask ==
    /\ wPc = "wait_task"
    /\ IF taskChan # <<>>
       THEN /\ taskChan' = Tail(taskChan)
            /\ IF Head(taskChan).some
               THEN /\ avail_index' = availIdx
                    /\ wTaskEp' = Head(taskChan).ep
                    /\ wPc' = "loop"
               ELSE /\ wPc' = "wait_virtq"
                    /\ UNCHANGED <<avail_index, wTaskEp>>
       ELSE /\ ~devAlive
            /\ wPc' = "wait_virtq"
            /\ UNCHANGED <<taskChan, avail_index, wTaskEp>>
    /\ UNCHANGED <<wVirtq, current_index, wLen, wHead, virtqChan, devAlive, virtioVars, memVars,
                   ghostVars, notVirtio>>

ServeLoop ==
    /\ wPc = "loop"
    /\ IF current_index < avail_index
       THEN LET r == handle_desc_chain(wVirtq, current_index)
            IN  /\ wPc' = IF r.panic THEN "panicked" ELSE "push"
                /\ wLen' = r.len
                /\ wHead' = IF wVirtq.num = 0 THEN wHead
                            ELSE read_avail(wVirtq, current_index)
                /\ evLog' = <<>>
                /\ panicSite' = IF r.panic THEN panicSite \cup {r.site} ELSE panicSite
       ELSE /\ wPc' = "wait_task"
            /\ UNCHANGED <<wLen, wHead, evLog, panicSite>>
    /\ UNCHANGED <<wVirtq, current_index, avail_index, wTaskEp, chanVars, virtioVars,
                   memVars, epoch, lastSent, featAccepted, lastNotify, irqVars, ioVars,
                   cpuVars, regVars, sideVars,
                   apicVars, pathVars, lifeVars>>

\* Virtq::push_used
push_used(q, id, len) ==
    /\ usedRing' = [usedRing EXCEPT ![(usedIdx % q.num) % RingSize] =
                                       [id |-> id, len |-> len]]
    /\ usedIdx' = (usedIdx + 1) % IdxMod

\* a worker that would send the IRQ before it sets the ISR bit
AfterPushIrqFirst(flags) ==
    IF BitAnd(flags, VIRTQ_AVAIL_F_NO_INTERRUPT) = 0 THEN "irq" ELSE "loop"

\* after push_used: the avail flags decide whether the driver is interrupted
AfterPush(flags) ==
    IF BitAnd(flags, VIRTQ_AVAIL_F_NO_INTERRUPT) = 0 THEN "isr" ELSE "loop"

ServePushUsed ==
    /\ wPc = "push"
    /\ push_used(wVirtq, read_avail(wVirtq, current_index), wLen)
    /\ current_index' = (current_index + 1) % IdxMod
    /\ evLog' = Append(evLog, "used")
    /\ wPc' = AfterPush(availFlags)
    /\ UNCHANGED <<wVirtq, avail_index, wLen, wHead, wTaskEp, chanVars, virtioVars,
                   availIdx, availFlags, availRing, descTable,
                   epoch, lastSent, featAccepted, lastNotify, notVirtio>>

ServeSetIsr ==
    /\ wPc = "isr"
    /\ isr' = BitOr(isr, VIRTIO_INT_VRING)
    /\ evLog' = Append(evLog, "isr")
    /\ wPc' = "irq"
    /\ UNCHANGED <<status, dri_feat, dri_feat_sel, qsel, qready, virtq, cfg_gen,
                   wVirtq, current_index, avail_index, wLen, wHead, wTaskEp, chanVars, memVars,
                   epoch, lastSent, featAccepted, lastNotify, notVirtio>>

\* the I/O APIC thread, the only receiver of the IRQ channel, is gone
IoApicGone == ioPc \in {"done", "panicked"}

\* Sender<u32>::send on the IRQ channel
SendIrq(irq) ==
    /\ irqChan' = Append(irqChan, [irq |-> irq, seq |-> sendSeq])
    /\ sendSeq' = sendSeq + 1

ServeSendIrq ==
    /\ wPc = "irq"
    /\ IF IoApicGone
       THEN /\ wPc' = "panicked"
            /\ UNCHANGED <<irqChan, sendSeq, evLog>>
       ELSE /\ Len(irqChan) < MaxChan
            /\ sendSeq < MaxIrqs
            /\ SendIrq(DevIrq)
            /\ evLog' = Append(evLog, "irq")
            /\ wPc' = "loop"
    /\ UNCHANGED <<wVirtq, current_index, avail_index, wLen, wHead, wTaskEp, chanVars,
                   virtioVars, memVars, epoch, lastSent, featAccepted, lastNotify,
                   irqSenders,
                   ioVars, cpuVars, regVars, sideVars, apicVars, pathVars, lifeVars, panicSite>>

(***************************************************************************)
(* ioapic.rs: the I/O APIC thread, IoApic::dispatch                        *)
(***************************************************************************)
virtioSide == <<virtioVars, chanVars, workerVars, memVars, ghostVars>>

\* FIXME in create_vm: only one core is supported
Cores == 1
\* the pins wired in VirtualMachine::new and by the virtio device
Com1Irq == 4
Irqs == {Com1Irq, DevIrq}

\* redirection tables the guest has programmed: per pin the fields of the
\* 64-bit entry that dispatch reads (vector: bits 0-7, logical: bit 11,
\* dest: bits 56-63)
PhysicalRedir == [i \in Irqs |-> [vector |-> 32 + i, logical |-> FALSE, dest |-> 0]]
LogicalRedir == [i \in Irqs |-> [vector |-> 32 + i, logical |-> TRUE, dest |-> 1]]
RedirTables == {PhysicalRedir, LogicalRedir}

\* the vCPU indexes dispatch sends to, in the order it sends
RECURSIVE LogicalDests(_, _)
LogicalDests(dest, i) ==
    IF i >= 8 THEN <<>>
    ELSE (IF (dest \div (2 ^ i)) % 2 = 1 THEN <<i>> ELSE <<>>) \o LogicalDests(dest, i + 1)

Dests(e) == IF ~e.logical THEN <<e.dest % 16>> ELSE LogicalDests(e.dest, 0)

\* a channel that would hand out the newest message first
send_front(q, m) == <<m>> \o q

\* Sender::send on an unbounded channel: the message goes to the tail
send(q, m) == Append(q, m)

\* the receiving half of vCPU 0's vector channel, owned by its GuestThread
VcpuGone == pc \in {"returned", "panicked"}

\* the vCPU thread is between a vm exit and the next run_until
Handling == pc \in {"dispatch", "reset", "drain", "inject"}

\* vcpu_ids[0] names a vCPU that exists
VcpuAlive == vcpuCreated /\ ~VcpuGone

IoRecv ==
    /\ ioPc = "recv"
    /\ IF irqChan # <<>>
       THEN LET m == Head(irqChan)
                e == ioValue[m.irq]
            IN  /\ irqChan' = Tail(irqChan)
                /\ recvLog' = Append(recvLog, m.seq)
                /\ IF vectorSenders /\ Dests(e) # <<>>
                   THEN /\ ioPc' = "send"
                        /\ ioIrq' = m
                        /\ ioVector' = e.vector
                        /\ ioDests' = Dests(e)
                   ELSE UNCHANGED <<ioPc, ioIrq, ioVector, ioDests>>
       ELSE /\ irqSenders = {}
            /\ ioPc' = "done"
            /\ UNCHANGED <<irqChan, recvLog, ioIrq, ioVector, ioDests>>
    /\ UNCHANGED <<irqSenders, sendSeq, ioValue, ioReg, vectorSenders, vcpuCreated,
                   cpuVars, regVars, sideVars, apicVars, vectorQ, pushLog, drained, lateSeq, firedSeq,
                   lifeVars, panicSite, virtioSide>>

IoSend ==
    /\ ioPc = "send"
    /\ IF Head(ioDests) >= Cores \/ VcpuGone
       THEN \* senders[dest] out of bounds, or send(..).unwrap() on a closed channel
            /\ ioPc' = "panicked"
            /\ UNCHANGED <<vectorQ, pushLog>>
       ELSE /\ vectorQ' = send(vectorQ, [vector |-> ioVector, seq |-> ioIrq.seq])
            /\ pushLog' = Append(pushLog, ioIrq.seq)
            /\ ioPc' = "kick"
    /\ UNCHANGED <<irqVars, ioIrq, ioDests, ioVector, ioValue, ioReg, vectorSenders,
                   vcpuCreated, cpuVars, regVars, sideVars, apicVars, recvLog, drained, lateSeq, firedSeq,
                   lifeVars, panicSite, virtioSide>>

\* interrupt_vcpu(&vcpu_ids[dest..dest + 1]).unwrap(); a vCPU that is not in
\* the guest is not affected (lib.rs, the comment of the VMX_REASON_IRQ arm)
IoKick(fail) ==
    /\ ioPc = "kick"
    /\ fail => ~VcpuAlive
    /\ IF fail
       THEN /\ ioPc' = "panicked"
            /\ UNCHANGED <<kicked, ioDests, lateSeq>>
       ELSE /\ kicked' = (kicked \/ pc = "guest")
            /\ ioDests' = Tail(ioDests)
            /\ ioPc' = IF Tail(ioDests) = <<>> THEN "recv" ELSE "send"
            /\ lateSeq' = IF Handling /\ vectorQ # <<>> /\ Head(vectorQ).seq = ioIrq.seq
                          THEN lateSeq \cup {ioIrq.seq} ELSE lateSeq
    /\ UNCHANGED <<irqVars, ioIrq, ioVector, ioValue, ioReg, vectorSenders, vcpuCreated,
                   pc, reason, space, innerResult, retval, handleResult, vectorRecv, regVars, sideVars,
                   apicVars, vectorQ, recvLog, pushLog, drained, firedSeq, lifeVars,
                   panicSite, virtioSide>>

(***************************************************************************)
(* serial.rs: the input thread and the guest's writes to COM1              *)
(***************************************************************************)
\* Serial::input_loop: a byte arrives on stdin
SerialRead ==
    /\ serPc = "read"
    /\ IF IoApicGone
       THEN /\ serPc' = "panicked"
            /\ irqSenders' = irqSenders \ {"serial"}
            /\ UNCHANGED <<irqChan, sendSeq>>
       ELSE /\ Len(irqChan) < MaxChan
            /\ sendSeq < MaxIrqs
            /\ SendIrq(Com1Irq)
            /\ UNCHANGED <<serPc, irqSenders>>
    /\ UNCHANGED <<hvVm, vmm, newResult, vm, ioVars, cpuVars, regVars, sideVars, apicVars, pathVars,
                   panicSite, virtioSide>>

\* Serial::input_loop: stdin is at its end, read_exact(..).unwrap() panics
SerialEof ==
    /\ serPc = "read"
    /\ serPc' = "panicked"
    /\ irqSenders' = irqSenders \ {"serial"}
    /\ UNCHANGED <<irqChan, sendSeq, hvVm, vmm, newResult, vm, ioVars, cpuVars, regVars, sideVars,
                   apicVars, pathVars, panicSite, virtioSide>>

\* Serial::write, offset 0 with DLAB clear, reached from handle_io
Com1Write ==
    /\ pc = "dispatch"
    /\ vm = "alive"
    /\ IF IoApicGone
       THEN /\ pc' = "panicked"
            /\ UNCHANGED <<irqChan, sendSeq>>
       ELSE /\ Len(irqChan) < MaxChan
            /\ sendSeq < MaxIrqs
            /\ SendIrq(Com1Irq)
            /\ UNCHANGED pc
    /\ UNCHANGED <<irqSenders, ioVars, reason, kicked, space, innerResult, retval,
                   handleResult, vectorRecv, regVars, sideVars, apicVars, pathVars, lifeVars, panicSite,
                   virtioSide>>

\* the guest stores to IOWIN with IOREGSEL at the low half of the entry of
\* pin i (ioapic_access, IoApic::write): a new vector for the pin
IoApicProgram(i, vector) ==
    /\ pc = "dispatch"
    /\ reason = "MMIO"
    /\ vm = "alive"
    /\ ioValue' = [ioValue EXCEPT ![i].vector = vector]
    /\ UNCHANGED <<irqVars, ioPc, ioIrq, ioDests, ioVector, ioReg, vectorSenders, vcpuCreated,
                   cpuVars, regVars, sideVars, apicVars, pathVars, lifeVars, panicSite,
                   virtioSide>>

(***************************************************************************)
(* lib.rs: GuestThread::start, run_on and run_on_inner                     *)
(***************************************************************************)
\* the exits the model lets the guest cause, by what the guest did
\* guest RIP is kept to RipMod values; the top one stands for the last address
RipMod == 4

\* the sti and mov-ss blocking bits of VMCS_GUEST_IGNORE_IRQ (0b11)
IrqBlockingBits == 3

\* what the guest leaves in RIP, the exit instruction length and the
\* interruptibility state at a vm exit
GuestStates == [rip : {0, RipMod - 1}, len : {0, 2}, ignore : {0, 3, 5}]
GuestQuiet == [rip |-> 0, len |-> 2, ignore |-> 0]

Reasons == {"IRQ", "HLT", "IRQ_WND", "CPUID", "MMIO", "APIC_EOI",
            "APIC_READ_CURR_COUNT", "APIC_WRITE_TSC_DDL", "UNKNOWN"}

\* values the guest writes to the task priority register
TprValues == {0, 37}

\* an update_ppr that looks at the in-service stack only
update_ppr_isr_only(t, stack) ==
    IF stack = <<>> THEN 0 ELSE (stack[Len(stack)] \div 16) * 16

\* Apic::update_ppr: the TPR if its class is at least that of the top of the
\* in-service stack (0 when the stack is empty), else the class of the top
update_ppr(t, stack) ==
    LET isrv == IF stack = <<>> THEN 0 ELSE stack[Len(stack)]
    IN  IF t \div 16 >= isrv \div 16 THEN t ELSE (isrv \div 16) * 16

\* an Apic::write whose EOI arm retires the oldest in-service vector
apic_write_eoi_oldest(r, value) ==
    CASE r = "APIC_TPR" /\ value # tpr ->
           [isr_vec |-> isr_vec, tpr |-> value, ppr |-> update_ppr(value, isr_vec)]
      [] r = "APIC_EOI" /\ isr_vec # <<>> ->
           [isr_vec |-> Tail(isr_vec), tpr |-> tpr, ppr |-> update_ppr(tpr, Tail(isr_vec))]
      [] OTHER -> [isr_vec |-> isr_vec, tpr |-> tpr, ppr |-> ppr]

\* Apic::write at OFFSET_TPR and OFFSET_EOI, as reached from the exits
\* APIC_TPR and APIC_EOI; other exits leave the three registers alone
apic_write(r, value) ==
    CASE r = "APIC_TPR" /\ value # tpr ->
           [isr_vec |-> isr_vec, tpr |-> value, ppr |-> update_ppr(value, isr_vec)]
      [] r = "APIC_EOI" /\ isr_vec # <<>> ->
           LET popped == SubSeq(isr_vec, 1, Len(isr_vec) - 1)
           IN  [isr_vec |-> popped, tpr |-> tpr, ppr |-> update_ppr(tpr, popped)]
      [] OTHER -> [isr_vec |-> isr_vec, tpr |-> tpr, ppr |-> ppr]

(***************************************************************************)
(* apic.rs: the registers behind Apic::write, the timer and Apic::reset    *)
(***************************************************************************)
BIT_LVT_MASKED == 65536
TIMER_ONE_SHOT == 0
TIMER_PERIODIC == 1
TIMER_TCS_DDL == 2
APIC_VER == 16

\* the bits of a value below 2^31
BitsOf(v) == {i \in 0..30 : (v \div (2 ^ i)) % 2 = 1}
AllOnes32 == 0..31

lvt_masked(lvt) == BitAnd(lvt, BIT_LVT_MASKED) > 0
lvt_vec(lvt) == lvt % 256
lvt_timer_mode(lvt) == (lvt \div (2 ^ 17)) % 4

\* what the host reports: the crystal frequency computed in Apic::new (24 MHz)
\* and mach_timebase_info (1 / 1 on the hosts that have VMX)
Frequency == 24 * 1000 * 1000
Numer == 1
Denom == 1
NsPerSec == 1000 * 1000 * 1000

NoTimer == [some |-> FALSE, v |-> 0]
SomeTimer(t) == [some |-> TRUE, v |-> t]

LvtNames == {"cmci", "error", "lint0", "lint1", "perf", "thermal", "timer"}

\* the fields of Apic before Apic::new calls reset: a zeroed page
ApicZeroed ==
    [id |-> 0, ver |-> 0, ldr |-> 0, dfr |-> {}, svr |-> 0, esr |-> 0, pending_err |-> 0,
     lvt |-> [n \in LvtNames |-> 0], icr0 |-> 0, icr32 |-> 0, dcr |-> 0,
     init_count |-> 0, curr_count |-> 0, next_timer |-> NoTimer, timer_period |-> 0]

\* Apic::x2mode
x2mode == 10 \in gst.msr_apic_base

\* Apic::ns_to_abs
ns_to_abs(ns) == (ns * Denom) \div Numer

\* Figure 10-10 as update_timer_period reads it
dcr_shift(dcr) ==
    LET dcr_value == BitOr(BitAnd(dcr, 3), BitAnd(dcr, 8) \div 2)
    IN  (dcr_value + 1) % 8

\* an update_timer_period that does not look at the mask bit
update_timer_period_unmasked(a, t) ==
    IF a.init_count > 0 /\ (Frequency \div (2 ^ dcr_shift(a.dcr))) \div a.init_count > 0
    THEN LET interval == ns_to_abs(NsPerSec \div
                             ((Frequency \div (2 ^ dcr_shift(a.dcr))) \div a.init_count))
         IN  [a |-> [a EXCEPT !.next_timer = SomeTimer(t + interval),
                              !.timer_period =
                                  IF lvt_timer_mode(a.lvt.timer) = TIMER_PERIODIC
                                  THEN interval ELSE 0],
              panic |-> "none"]
    ELSE [a |-> [a EXCEPT !.next_timer = NoTimer, !.timer_period = 0], panic |-> "none"]

\* Apic::update_timer_period at host time t: the new fields, or the site of
\* the panic (division by zero, unimplemented!, unreachable!)
update_timer_period(a, t) ==
    IF ~lvt_masked(a.lvt.timer) /\ a.init_count > 0
    THEN LET interrupt_freq == (Frequency \div (2 ^ dcr_shift(a.dcr))) \div a.init_count
         IN  IF interrupt_freq = 0 THEN [a |-> a, panic |-> "divide_by_zero"]
             ELSE LET interval == ns_to_abs(NsPerSec \div interrupt_freq)
                      mode == lvt_timer_mode(a.lvt.timer)
                  IN  CASE mode = TIMER_ONE_SHOT ->
                             [a |-> [a EXCEPT !.next_timer = SomeTimer(t + interval),
                                              !.timer_period = 0],
                              panic |-> "none"]
                        [] mode = TIMER_PERIODIC ->
                             [a |-> [a EXCEPT !.next_timer = SomeTimer(t + interval),
                                              !.timer_period = interval],
                              panic |-> "none"]
                        [] mode = TIMER_TCS_DDL -> [a |-> a, panic |-> "tsc_deadline"]
                        [] OTHER -> [a |-> a, panic |-> "unreachable"]
    ELSE [a |-> [a EXCEPT !.next_timer = NoTimer, !.timer_period = 0], panic |-> "none"]

\* Apic::mask_all_lvt
mask_all_lvt(a, t) ==
    update_timer_period(
        [a EXCEPT !.lvt = [n \in LvtNames |-> BitOr(a.lvt[n], BIT_LVT_MASKED)]], t)

\* a fire_timer_interrupt that adds the period to the deadline that expired
fire_timer_interrupt_from_deadline(a, t) ==
    [vector |-> lvt_vec(a.lvt.timer),
     a |-> [a EXCEPT !.next_timer = IF a.timer_period = 0 THEN NoTimer
                                    ELSE SomeTimer(a.next_timer.v + a.timer_period)]]

\* Apic::fire_timer_interrupt at host time t: the vector set in IRR and the
\* next deadline
fire_timer_interrupt(a, t) ==
    [vector |-> lvt_vec(a.lvt.timer),
     a |-> [a EXCEPT !.next_timer = IF a.timer_period = 0 THEN NoTimer
                                    ELSE SomeTimer(t + a.timer_period)]]

\* the registers a store to the APIC page can name
ApicOffsets == {"ID", "LDR", "DFR", "SVR", "ICR0", "ICR32", "LVT_CMCI", "LVT_TIMER",
                "LVT_THERMAL", "LVT_PERF", "LVT_LINT0", "LVT_LINT1", "LVT_ERROR",
                "INIT_COUNT", "DCR", "ESR", "SELF_IPI", "VER"}

\* the arms of Apic::write other than TPR and EOI, at host time t
apic_store(a, offset, value, t) ==
    CASE offset = "ID" ->
           IF x2mode THEN [a |-> a, panic |-> "id_x2"] ELSE [a |-> a, panic |-> "none"]
      [] offset = "LDR" ->
           IF x2mode THEN [a |-> a, panic |-> "ldr_x2"]
           ELSE [a |-> [a EXCEPT !.ldr = value], panic |-> "none"]
      [] offset = "DFR" ->
           IF x2mode THEN [a |-> a, panic |-> "dfr_x2"]
           ELSE [a |-> [a EXCEPT !.dfr = BitsOf(value)], panic |-> "none"]
      [] offset = "SVR" ->
           LET enabled_old == BitAnd(a.svr, 256) > 0
               enabled == BitAnd(value, 256) > 0
               m == IF enabled_old /\ ~enabled THEN mask_all_lvt(a, t)
                    ELSE [a |-> a, panic |-> "none"]
           IN  [a |-> [m.a EXCEPT !.svr = value], panic |-> m.panic]
      [] offset = "ICR0" ->
           IF x2mode THEN [a |-> a, panic |-> "icr_x2"]
           ELSE [a |-> [a EXCEPT !.icr0 = value], panic |-> "none"]
      [] offset = "ICR32" -> [a |-> [a EXCEPT !.icr32 = value], panic |-> "none"]
      [] offset = "LVT_TIMER" ->
           update_timer_period([a EXCEPT !.lvt.timer = value], t)
      [] offset = "LVT_THERMAL" -> [a |-> [a EXCEPT !.lvt.thermal = value], panic |-> "none"]
      [] offset = "LVT_PERF" -> [a |-> [a EXCEPT !.lvt.perf = value], panic |-> "none"]
      [] offset = "LVT_LINT0" -> [a |-> [a EXCEPT !.lvt.lint0 = value], panic |-> "none"]
      [] offset = "LVT_LINT1" -> [a |-> [a EXCEPT !.lvt.lint1 = value], panic |-> "none"]
      [] offset = "LVT_ERROR" -> [a |-> [a EXCEPT !.lvt.error = value], panic |-> "none"]
      [] offset = "INIT_COUNT" ->
           update_timer_period([a EXCEPT !.init_count = value], t)
      [] offset = "DCR" -> update_timer_period([a EXCEPT !.dcr = value], t)
      [] offset = "ESR" ->
           [a |-> [a EXCEPT !.esr = a.pending_err, !.pending_err = 0], panic |-> "none"]
      [] offset = "SELF_IPI" -> [a |-> a, panic |-> "self_ipi"]
      \* LVT_CMCI and the offsets that are no register: an error! line only
      [] OTHER -> [a |-> a, panic |-> "none"]

\* Apic::reset of the registers kept in lapic; LVT_TIMER is masked before
\* update_timer_period runs and the counts are cleared after it
reset_page(a, id, t) ==
    LET masked == [a EXCEPT !.id = id * (2 ^ 24),
                            !.ver = BitOr(APIC_VER, 6 * (2 ^ 16)),
                            !.ldr = 0, !.dfr = AllOnes32, !.svr = 255, !.esr = 0,
                            !.lvt = [n \in LvtNames |-> BIT_LVT_MASKED]]
        u == update_timer_period(masked, t)
    IN  [u.a EXCEPT !.icr0 = 0, !.icr32 = 0, !.dcr = 0, !.curr_count = 0,
                    !.init_count = 0]

\* Apic::new for vCPU 0
ApicNew == reset_page(ApicZeroed, 0, 0)

\* Apic::reset on the whole LAPIC p = [page, irr, isr, tmr, isr_vec, tpr, ppr]:
\* TPR, APR and PPR are written 0; the loop over the eight DWORDs writes TMR
\* once and ISR twice, so the IRR DWORDs keep their bits; the Vec isr_vec is
\* not a register of the page and is left as it is
reset(p, id, t) ==
    [page |-> reset_page(p.page, id, t),
     irr |-> p.irr, isr |-> {}, tmr |-> {},
     isr_vec |-> p.isr_vec, tpr |-> 0, ppr |-> 0]

\* a loop that goes back into the guest after a hlt
HandleOutcomeHltResumes(r) == "Resume"

\* the match on the exit reason, and what the handlers it calls end in
HandleOutcome(r) ==
    CASE r \in {"IRQ", "IRQ_WND", "VMX_TIMER"} -> "Resume"
      [] r = "HLT" -> "Exit"
      [] r \in {"CPUID", "MMIO", "APIC_EOI", "APIC_TPR"} -> "Next"
      [] r = "APIC_READ_CURR_COUNT" -> "Panic"
      [] r = "APIC_WRITE_TSC_DDL" -> "Panic"
      [] OTHER -> "Unhandled"

\* the Result of run_on_inner when the loop is left by HandleResult::Exit
InnerOk == "Ok"

\* GuestThread::start: VCPU::create()? and the write of vcpu_ids
Start(fail) ==
    /\ pc = "start"
    /\ IF fail
       THEN /\ pc' = "returned"
            /\ retval' = "create"
            /\ UNCHANGED vcpuCreated
       ELSE /\ pc' = "set_space"
            /\ vcpuCreated' = TRUE
            /\ UNCHANGED retval
    /\ UNCHANGED <<irqVars, ioPc, ioIrq, ioDests, ioVector, ioValue, ioReg, vectorSenders,
                   reason, kicked, space, innerResult, handleResult, vectorRecv, regVars, sideVars,
                   apicVars, pathVars, lifeVars, panicSite, virtioSide>>

\* run_on: vcpu.set_space(&self.vm.mem_space)?
EnterSpace(fail) ==
    /\ pc = "set_space"
    /\ IF fail
       THEN /\ pc' = "returned"
            /\ retval' = "set_space"
            /\ UNCHANGED space
       ELSE /\ pc' = "setup"
            /\ space' = "vm"
            /\ UNCHANGED retval
    /\ UNCHANGED <<irqVars, ioVars, reason, kicked, innerResult, handleResult, vectorRecv, regVars, sideVars,
                   apicVars, pathVars, lifeVars, panicSite, virtioSide>>

\* run_on_inner up to the loop: enable_msrs, init_vmcs, init_regs, then run_until
Setup(fail) ==
    /\ pc = "setup"
    /\ IF fail
       THEN /\ pc' = "restore"
            /\ innerResult' = "setup"
       ELSE /\ pc' = "guest"
            /\ UNCHANGED innerResult
    /\ UNCHANGED <<irqVars, ioVars, reason, kicked, space, retval, handleResult, vectorRecv, regVars, sideVars,
                   apicVars, pathVars, lifeVars, panicSite, virtioSide>>

\* run_until returns and the exit reason, RIP and instruction length are read
GuestExit(r, g, fail) ==
    /\ pc = "guest"
    /\ ~fail /\ r = "IRQ" => kicked
    /\ ~fail /\ r = "IRQ_WND" => irqWnd
    \* run_until(deadline) ends with VMX_TIMER_EXPIRED once the deadline has passed
    /\ ~fail /\ r = "VMX_TIMER" => lapic.next_timer.some /\ now >= lapic.next_timer.v
    /\ IF fail
       THEN /\ pc' = "restore"
            /\ innerResult' = "run_until"
            /\ UNCHANGED <<reason, kicked, entryValid, drained, lateSeq, firedSeq,
                           regVars>>
       ELSE /\ pc' = "dispatch"
            /\ reason' = r
            /\ rip' = g.rip
            /\ instr_len' = g.len
            /\ irq_ignore' = g.ignore
            /\ kicked' = FALSE
            /\ entryValid' = FALSE
            /\ drained' = 0
            /\ lateSeq' = {}
            /\ firedSeq' = {}
            /\ UNCHANGED innerResult
    /\ UNCHANGED <<sideVars, irqVars, ioVars, space, retval, handleResult, vectorRecv, irr, isr_vec,
                   irqWnd, tpr, ppr, entryVec, rflags_if, timerVars, vectorQ, recvLog, pushLog,
                   lifeVars, panicSite, virtioSide>>

\* the match on the reason, then the match on the HandleResult (RIP is advanced
\* and the interrupt shadow cleared on Next)
\* a loop that moves RIP past the exit instruction whatever the handler said
RipAfterAlways(o, r, len) == (r + len) % RipMod

\* match result { Next => write_reg(RIP, rip + instr_len), Resume => () }
RipAfter(o, r, len) == IF o = "Next" THEN (r + len) % RipMod ELSE r

\* if result == HandleResult::Next { irq_ignore &= !0b11 }
IgnoreAfter(o, ign) == IF o = "Next" THEN BitClear(ign, IrqBlockingBits) ELSE ign

HandleExit(fail) ==
    /\ pc = "dispatch"
    /\ LET o == HandleOutcome(reason)
       IN  IF fail
           THEN /\ pc' = "restore"
                /\ innerResult' = "hv"
                /\ UNCHANGED <<handleResult, irqWnd, isr_vec, tpr, ppr, panicSite, regVars,
                               irr, lapic>>
           ELSE /\ pc' = CASE o = "Panic" -> "panicked"
                          [] o \in {"Exit", "Unhandled"} -> "restore"
                          [] OTHER -> "drain"
                /\ innerResult' = CASE o = "Exit" -> InnerOk
                                   [] o = "Unhandled" -> "Unhandled"
                                   [] OTHER -> innerResult
                /\ handleResult' = IF o \in {"Resume", "Next", "Exit"} THEN o
                                   ELSE handleResult
                /\ irqWnd' = IF reason = "IRQ_WND" THEN FALSE ELSE irqWnd
                /\ \E value \in (IF reason = "APIC_TPR" THEN TprValues ELSE {tpr}) :
                       LET a == apic_write(reason, value)
                       IN  isr_vec' = a.isr_vec /\ tpr' = a.tpr /\ ppr' = a.ppr
                /\ IF reason = "VMX_TIMER"
                   THEN LET f == fire_timer_interrupt(lapic, now)
                        IN  irr' = irr \cup {f.vector} /\ lapic' = f.a
                   ELSE UNCHANGED <<irr, lapic>>
                /\ panicSite' = IF o = "Panic" THEN panicSite \cup {reason} ELSE panicSite
                /\ rip' = RipAfter(o, rip, instr_len)
                /\ irq_ignore' = IgnoreAfter(o, irq_ignore)
                /\ UNCHANGED instr_len
    /\ UNCHANGED <<sideVars, irqVars, ioVars, reason, kicked, space, retval, vectorRecv, now,
                   entryValid, entryVec, rflags_if, pathVars, lifeVars, virtioSide>>

\* a loop that would empty vector_receiver
DrainAll(q) == Len(q)

\* how many vectors one iteration takes from vector_receiver: one try_recv
DrainCount(q) == IF q = <<>> THEN 0 ELSE 1

\* "collect interrupt vector from IO APIC": try_recv, fire_external_interrupt
Drain ==
    /\ pc = "drain"
    /\ LET n == IF vectorRecv THEN DrainCount(vectorQ) ELSE 0
           taken == SubSeq(vectorQ, 1, n)
       IN  /\ vectorQ' = SubSeq(vectorQ, n + 1, Len(vectorQ))
           /\ irr' = irr \cup {taken[i].vector : i \in 1..n}
           /\ firedSeq' = firedSeq \cup {taken[i].seq : i \in 1..n}
           /\ drained' = drained + n
    /\ pc' = "inject"
    /\ UNCHANGED <<irqVars, ioVars, reason, kicked, space, innerResult, retval,
                   handleResult, vectorRecv, regVars, sideVars, isr_vec, entryValid, irqWnd, tpr, ppr,
                   entryVec, rflags_if, timerVars, recvLog, pushLog, lateSeq, lifeVars, panicSite,
                   virtioSide>>

\* apic.rs
priority(v) == v \div 16
Max(S) == CHOOSE x \in S : \A y \in S : y <= x
\* a scan of IRR that does not look at the PPR
get_vector_from_irr_any_priority == IF irr # {} THEN Max(irr) ELSE -1

\* Apic::get_vector_from_irr: the highest vector of IRR, if above the PPR; -1 is Err
get_vector_from_irr ==
    IF irr # {} /\ priority(Max(irr)) > priority(ppr) THEN Max(irr) ELSE -1

\* an inject_interrupt that never asks for the interrupt window
irq_wnd_not_requested(wnd, v) == wnd

\* inject_interrupt sets CPU_BASED_IRQ_WND when it found a vector and could
\* not inject it
irq_wnd_after(wnd, v) == wnd \/ v >= 0

\* the three tests of inject_interrupt with the interrupt shadow left out
irq_window_open_in_shadow(if_flag, blocking, valid) == if_flag /\ ~valid

\* inject_interrupt: RFLAGS.IF is set, the blocking bits of
\* VMCS_GUEST_IGNORE_IRQ are clear and VMENTRY_IRQ_INFO is not valid
irq_window_open(if_flag, blocking, valid) ==
    if_flag /\ BitAnd(blocking, IrqBlockingBits) = 0 /\ ~valid

\* Apic::inject_interrupt, then the loop goes back to run_until
Inject(fail, open) ==
    /\ pc = "inject"
    /\ LET v == get_vector_from_irr
       IN  /\ fail => v >= 0
           /\ IF fail
              THEN /\ pc' = "restore"
                   /\ innerResult' = "hv"
                   /\ UNCHANGED apicVars
              ELSE /\ pc' = "guest"
                   /\ UNCHANGED innerResult
                   /\ rflags_if' = IF v >= 0 THEN open ELSE rflags_if
                   /\ UNCHANGED <<tpr, timerVars>>
                   /\ IF v >= 0 /\ irq_window_open(open, irq_ignore, entryValid)
                      THEN \* mark_intr_in_service
                           /\ entryValid' = TRUE
                           /\ entryVec' = v
                           /\ irr' = irr \ {v}
                           /\ isr_vec' = Append(isr_vec, v)
                           /\ ppr' = update_ppr(tpr, Append(isr_vec, v))
                           /\ UNCHANGED irqWnd
                      ELSE /\ irqWnd' = irq_wnd_after(irqWnd, v)
                           /\ UNCHANGED <<irr, isr_vec, entryValid, entryVec, ppr>>
    /\ UNCHANGED <<irqVars, ioVars, reason, kicked, space, retval, handleResult,
                   vectorRecv, regVars, sideVars, pathVars, lifeVars, panicSite, virtioSide>>

\* a store of the guest to a LAPIC register other than TPR and EOI, reached
\* through handle_ept_violation and apic_access: Apic::write
ApicStore(offset, value) ==
    /\ pc = "dispatch"
    /\ reason = "MMIO"
    /\ vm = "alive"
    /\ LET w == apic_store(lapic, offset, value, now)
       IN  /\ lapic' = w.a
           /\ pc' = IF w.panic = "none" THEN pc ELSE "panicked"
           /\ panicSite' = IF w.panic = "none" THEN panicSite ELSE panicSite \cup {w.panic}
    /\ UNCHANGED <<irqVars, ioVars, reason, kicked, space, innerResult, retval, handleResult,
                   vectorRecv, regVars, sideVars, irr, isr_vec, entryValid, irqWnd, tpr, ppr,
                   entryVec, rflags_if, now, pathVars, lifeVars, virtioSide>>

\* the LAPIC of vCPU 0 as Apic::reset finds it; no code sets a TMR bit, and
\* the ISR bits are those of the vectors in service
LapicState ==
    [page |-> lapic, irr |-> irr, isr |-> {isr_vec[i] : i \in DOMAIN isr_vec}, tmr |-> {},
     isr_vec |-> isr_vec, tpr |-> tpr, ppr |-> ppr]

\* Apic::reset on the LAPIC of vCPU 0
ApicReset ==
    /\ pc = "dispatch"
    /\ vm = "alive"
    /\ LET r == reset(LapicState, 0, now)
       IN  /\ lapic' = r.page
           /\ irr' = r.irr
           /\ isr_vec' = r.isr_vec
           /\ tpr' = r.tpr
           /\ ppr' = r.ppr
    /\ UNCHANGED <<irqVars, ioVars, cpuVars, regVars, sideVars, entryValid, irqWnd,
                   entryVec, rflags_if, now, pathVars, lifeVars, panicSite, virtioSide>>

\* host time passes, one quantum at a time
Quantum == 250 * 1000 * 1000
MaxTicks == 4
Tick ==
    /\ now < MaxTicks * Quantum
    /\ now' = now + Quantum
    /\ UNCHANGED <<irqVars, ioVars, cpuVars, regVars, sideVars, irr, isr_vec, entryValid, irqWnd,
                   tpr, ppr, entryVec, rflags_if, lapic, pathVars, lifeVars, panicSite,
                   virtioSide>>

\* the closure of GuestThread::start ends, by return or by unwinding, and
\* drops its VCPU: Drop for VCPU calls hv_vcpu_destroy
VcpuDrop ==
    /\ pc \in {"returned", "panicked"}
    /\ vcpuCreated /\ vcpuDropped = "no"
    /\ vcpuDropped' = space
    /\ UNCHANGED <<irqVars, ioVars, cpuVars, regVars, vthVars, exitVars, apicVars, pathVars,
                   lifeVars, panicSite, virtioSide>>

\* what run_on returns once run_on_inner has returned `inner`
RunOnReturn(inner, restored) == IF restored THEN inner ELSE "set_space"

\* run_on: vcpu.set_space(&DEFAULT_MEM_SPACE)?
Restore(fail) ==
    /\ pc = "restore"
    /\ IF fail
       THEN /\ pc' = "returned"
            /\ retval' = RunOnReturn(innerResult, FALSE)
            /\ UNCHANGED space
       ELSE /\ space' = "default"
            /\ IF innerResult # InnerOk
               THEN pc' = "dump" /\ UNCHANGED retval
               ELSE pc' = "returned" /\ retval' = RunOnReturn(innerResult, TRUE)
    /\ UNCHANGED <<irqVars, ioVars, reason, kicked, innerResult, handleResult, vectorRecv, regVars, sideVars,
                   apicVars, pathVars, lifeVars, panicSite, virtioSide>>

\* run_on: if result.is_err() { vcpu.dump().unwrap(); } result
Dump(fail) ==
    /\ pc = "dump"
    /\ IF fail
       THEN pc' = "panicked" /\ UNCHANGED retval
       ELSE pc' = "returned" /\ retval' = RunOnReturn(innerResult, TRUE)
    /\ UNCHANGED <<irqVars, ioVars, reason, kicked, space, innerResult, handleResult,
                   vectorRecv, regVars, sideVars, apicVars, pathVars, lifeVars, panicSite, virtioSide>>

(***************************************************************************)
(* lib.rs: VMManager, VirtualMachine                                       *)
(***************************************************************************)
\* the places of the program that construct a VMManager
Owners == {1, 2}

\* hv_vm_create of the host: one VM per process
hv_vm_create_ok == ~hvVm

\* a VMManager::new that would not look at the result of vm_create
new_result_unchecked(created) == "Ok"

\* VMManager::new: hv::vm_create(0)?; Ok(VMManager {})
new_result(created) == IF created THEN "Ok" ELSE "Err"

VmmNew(o) ==
    /\ vmm[o] # "held"
    /\ LET other == \E p \in Owners : vmm[p] = "held"
           res == new_result(hv_vm_create_ok)
       IN  /\ newResult' = [newResult EXCEPT ![o] = [res |-> res, other |-> other]]
           /\ vmm' = [vmm EXCEPT ![o] = IF res = "Ok" THEN "held" ELSE @]
    /\ hvVm' = TRUE
    /\ UNCHANGED <<vm, serPc, irqVars, ioVars, cpuVars, regVars, sideVars, apicVars, pathVars, panicSite,
                   virtioSide>>

\* Drop for VMManager: hv::vm_destroy().unwrap()
VmmDrop(o) ==
    /\ vmm[o] = "held"
    /\ vmm' = [vmm EXCEPT ![o] = "dropped"]
    /\ hvVm' = FALSE
    /\ UNCHANGED <<newResult, vm, serPc, irqVars, ioVars, cpuVars, regVars, sideVars, apicVars, pathVars,
                   panicSite, virtioSide>>

\* the holders of a Sender of the IRQ channel of a VM with one virtio device
AllSenders == {"vm", "com1", "serial", "worker"}

\* create_vm / VirtualMachine::new and the virtio device added to the VM: the
\* I/O APIC thread, the serial input thread and the queue's worker are spawned
CreateVm(o) ==
    /\ vmm[o] = "held"
    /\ vm = "none"
    /\ vm' = "alive"
    /\ ioPc' = "recv"
    /\ serPc' = "read"
    /\ wPc' = "wait_virtq"
    /\ devAlive' = TRUE
    /\ irqSenders' = AllSenders
    /\ UNCHANGED <<hvVm, vmm, newResult, irqChan, sendSeq, ioIrq, ioDests, ioVector,
                   ioValue, ioReg, vectorSenders, vcpuCreated, cpuVars, regVars, sideVars, apicVars,
                   pathVars, panicSite, virtioVars, taskChan, virtqChan, wVirtq,
                   current_index, avail_index, wLen, wHead, wTaskEp, memVars, ghostVars>>

\* linux::load / multiboot::load: the vector channels and the guest threads
Load ==
    /\ vm = "alive"
    /\ pc = "none"
    /\ pc' = "start"
    /\ vectorSenders' = TRUE
    /\ vectorRecv' = TRUE
    /\ UNCHANGED <<irqVars, ioPc, ioIrq, ioDests, ioVector, ioValue, ioReg, vcpuCreated,
                   reason, kicked, space, innerResult, retval, handleResult, regVars, sideVars,
                   apicVars, pathVars, lifeVars, panicSite, virtioSide>>

\* linux.rs: magic numbers and xloadflags bits of the setup header
HDRS == 1400005704
MAGIC_AA55 == 43605
BootProtocol212 == 524
XLF_KERNEL_64 == 1
XLF_CAN_BE_LOADED_ABOVE_4G == 2

\* the header checks of load_linux64, in its order: the name of the first
\* check that returns Err, or "ok"
load_linux64_header(h) ==
    CASE h.boot_flag # MAGIC_AA55 -> "boot_flag"
      [] h.header # HDRS -> "header"
      [] h.version < BootProtocol212 -> "version"
      [] BitOr(h.xloadflags, XLF_KERNEL_64) = 0 -> "xlf_kernel_64"
      [] BitOr(h.xloadflags, XLF_CAN_BE_LOADED_ABOVE_4G) = 0 -> "xlf_above_4g"
      [] h.relocatable_kernel = 0 -> "relocatable"
      [] OTHER -> "ok"

\* load_linux64 on a kernel file with setup header h; fail is a failure of
\* the file reads, of the allocation of high memory or of its mapping
LoadLinux64(h, fail) ==
    /\ vm = "alive"
    /\ pc = "none"
    /\ LET check == load_linux64_header(h)
           ok == ~fail /\ check = "ok"
       IN  /\ hx' = [kind |-> "load", via |-> IF fail THEN "io" ELSE check,
                     arg |-> h.xloadflags, insn |-> <<>>, size |-> 0,
                     res |-> IF ok THEN "Ok" ELSE "Program"]
           /\ pc' = IF ok THEN "start" ELSE pc
           /\ vectorSenders' = IF ok THEN TRUE ELSE vectorSenders
           /\ vectorRecv' = IF ok THEN TRUE ELSE vectorRecv
    /\ UNCHANGED <<irqVars, ioPc, ioIrq, ioDests, ioVector, ioValue, ioReg, vcpuCreated,
                   reason, kicked, space, innerResult, retval, handleResult, regVars,
                   vthVars, vcpuDropped, vmCfg, gst, eptVars, vmcs_ctrl,
                   apicVars, pathVars, lifeVars, panicSite, virtioSide>>

\* the last Arc<VirtualMachine> is dropped: its senders and devices go
VmDrop ==
    /\ vm = "alive"
    /\ pc \in {"none", "returned", "panicked"}
    /\ vm' = "dropped"
    /\ irqSenders' = irqSenders \ {"vm", "com1"}
    /\ devAlive' = FALSE
    /\ UNCHANGED <<hvVm, vmm, newResult, serPc, irqChan, sendSeq, ioVars, cpuVars, regVars, sideVars,
                   apicVars, pathVars, panicSite, virtioVars, taskChan, virtqChan,
                   workerVars, memVars, ghostVars>>

(***************************************************************************)
(* Initial states                                                          *)
(***************************************************************************)
ZeroAddr == [lo |-> 0, hi |-> 0]
\* Virtq::new(0)
NewVirtq == [num |-> 0, desc |-> ZeroAddr, avail |-> ZeroAddr, used |-> ZeroAddr]

\* VirtioDevice::new_rng, VirtqManager::new and guest memory before the driver runs
InitDevice(tables) ==
    /\ status = 0 /\ dri_feat = ZeroAddr /\ dri_feat_sel = 0 /\ qsel = 0
    /\ qready = 0 /\ virtq = NewVirtq /\ isr = 0 /\ cfg_gen = 0
    /\ taskChan = <<>> /\ virtqChan = <<>>
    /\ wVirtq = NewVirtq /\ current_index = 0 /\ avail_index = 0 /\ wLen = 0
    /\ wHead = 0
    /\ wTaskEp = 0
    /\ availIdx = 0 /\ availFlags = 0 /\ availRing = [i \in 0..(RingSize - 1) |-> 0]
    /\ descTable \in tables
    /\ usedIdx = 0 /\ usedRing = [i \in 0..(RingSize - 1) |-> [id |-> 0, len |-> 0]]
    /\ epoch = 0 /\ lastSent = NewVirtq /\ featAccepted = FALSE /\ evLog = <<>>
    /\ lastNotify = [value |-> 0, tick |-> 0]

\* ---- vthreads: a guest function run on a vCPU of its own ----

VThreads == {1, 2}

\* at most this many vm exits interrupt a vthread's function
MaxSpurious == 2

\* functions that all work on the same static
VthStaticShared(fn) == "A"

\* the functions of the vthread tests, as the value they store to their static
VthApply(fn, x) ==
    CASE fn = "add_a" -> x + 3
      [] fn = "double_a" -> 2 * x
      [] fn = "decrement_b" -> x - 1
      [] OTHER -> x

\* the static a function works on
VthStatic(fn) == IF fn = "decrement_b" THEN "B" ELSE "A"

\* the function each spawned vthread is given
VthPrograms ==
    {[t \in VThreads |-> IF t = 1 THEN "add_a" ELSE "none"],
     [t \in VThreads |-> IF t = 1 THEN "double_a" ELSE "decrement_b"]}

VthNone(fn) ==
    [pc |-> "none", fn |-> fn, gpc |-> "none", reg |-> 0, stack |-> "none",
     space |-> "default", reason |-> "none", result |-> "none", retval |-> "none"]

NoVthreads ==
    /\ vth = [t \in VThreads |-> VthNone("none")]
    /\ statics = [A |-> 0, B |-> 0, A0 |-> 0, B0 |-> 0]
    /\ testPc = [op |-> "none", t |-> 0]
    /\ spurious = 0

\* what the spawning thread does after the spawn or the join of vthread t
AfterSpawn(t) ==
    IF t + 1 \in VThreads /\ vth[t + 1].fn # "none"
    THEN [op |-> "spawn", t |-> t + 1] ELSE [op |-> "join", t |-> 1]

AfterJoin(t) ==
    IF t + 1 \in VThreads /\ vth[t + 1].fn # "none"
    THEN [op |-> "join", t |-> t + 1] ELSE [op |-> "done", t |-> 0]

VthFrame == UNCHANGED <<virtioSide, irqVars, ioVars, cpuVars, regVars, vcpuDropped, exitVars, apicVars, pathVars,
                        lifeVars, panicSite>>

\* Builder::spawn: VThread::new puts the address of hlt at the top of the
\* stack as the return address, then the host thread is spawned
VthSpawn(t) ==
    /\ testPc = [op |-> "spawn", t |-> t]
    /\ vth[t].pc = "none"
    /\ vth' = [vth EXCEPT ![t].pc = "create", ![t].stack = "hlt"]
    /\ testPc' = AfterSpawn(t)
    /\ UNCHANGED <<statics, spurious>>
    /\ VthFrame

\* the spawned closure: VCPU::create()?
VthCreate(t) ==
    /\ vth[t].pc = "create"
    /\ vth' = [vth EXCEPT ![t].pc = "set_space"]
    /\ UNCHANGED <<statics, testPc, spurious>>
    /\ VthFrame

\* run_on: vcpu.set_space(&vm.mem_space)?
VthEnterSpace(t) ==
    /\ vth[t].pc = "set_space"
    /\ vth' = [vth EXCEPT ![t].pc = "setup", ![t].space = "vm"]
    /\ UNCHANGED <<statics, testPc, spurious>>
    /\ VthFrame

\* run_on_inner: init_vmcs and init_regs are written, RIP = entry
VthSetup(t) ==
    /\ vth[t].pc = "setup"
    /\ vth' = [vth EXCEPT ![t].pc = "guest", ![t].gpc = "entry"]
    /\ UNCHANGED <<statics, testPc, spurious>>
    /\ VthFrame

\* the guest function reads its static
VthLoad(t) ==
    /\ vth[t].pc = "guest" /\ vth[t].gpc = "entry"
    /\ vth' = [vth EXCEPT ![t].gpc = "loaded", ![t].reg = statics[VthStatic(vth[t].fn)]]
    /\ UNCHANGED <<statics, testPc, spurious>>
    /\ VthFrame

\* the guest function stores the new value
VthStore(t) ==
    /\ vth[t].pc = "guest" /\ vth[t].gpc = "loaded"
    /\ statics' = [statics EXCEPT ![VthStatic(vth[t].fn)] = VthApply(vth[t].fn, vth[t].reg)]
    /\ vth' = [vth EXCEPT ![t].gpc = "ret"]
    /\ UNCHANGED <<testPc, spurious>>
    /\ VthFrame

\* the guest function returns to the address at the top of its stack
VthRet(t) ==
    /\ vth[t].pc = "guest" /\ vth[t].gpc = "ret"
    /\ vth' = [vth EXCEPT ![t].gpc = vth[t].stack]
    /\ UNCHANGED <<statics, testPc, spurious>>
    /\ VthFrame

\* the hlt stub executes hlt: vm exit with VMX_REASON_HLT (CPU_BASED_HLT is set)
VthHalt(t) ==
    /\ vth[t].pc = "guest" /\ vth[t].gpc = "hlt"
    /\ vth' = [vth EXCEPT ![t].pc = "dispatch", ![t].reason = "HLT"]
    /\ UNCHANGED <<statics, testPc, spurious>>
    /\ VthFrame

\* a vm exit on the way (VMX_REASON_IRQ), at any point of the function
VthSpurious(t) ==
    /\ vth[t].pc = "guest" /\ vth[t].gpc # "hlt"
    /\ spurious < MaxSpurious
    /\ spurious' = spurious + 1
    /\ vth' = [vth EXCEPT ![t].pc = "dispatch", ![t].reason = "IRQ"]
    /\ UNCHANGED <<statics, testPc>>
    /\ VthFrame

\* run_on_inner: the match on the exit reason and on the HandleResult
VthHandle(t) ==
    /\ vth[t].pc = "dispatch"
    /\ LET o == HandleOutcome(vth[t].reason)
       IN  vth' = [vth EXCEPT ![t].result = o,
                              ![t].pc = IF o = "Exit" THEN "restore" ELSE "guest"]
    /\ UNCHANGED <<statics, testPc, spurious>>
    /\ VthFrame

\* run_on: set_space(&DEFAULT_MEM_SPACE)? and the result of run_on_inner
VthRestore(t) ==
    /\ vth[t].pc = "restore"
    /\ vth' = [vth EXCEPT ![t].pc = "returned", ![t].space = "default",
                          ![t].retval = RunOnReturn(InnerOk, TRUE)]
    /\ UNCHANGED <<statics, testPc, spurious>>
    /\ VthFrame

\* JoinHandle::join
VthJoin(t) ==
    /\ testPc = [op |-> "join", t |-> t]
    /\ vth[t].pc = "returned"
    /\ vth' = [vth EXCEPT ![t].pc = "joined"]
    /\ testPc' = AfterJoin(t)
    /\ UNCHANGED <<statics, spurious>>
    /\ VthFrame

\* ---- vm exit handlers: MSR access, control registers ----

\* 64-bit values are sets of bit positions
Bit64 == 0..63
Low32(v) == v \cap (0..31)
High32(v) == {b - 32 : b \in v \cap (32..63)}
Shl32(v) == {b + 32 : b \in Low32(v)}
AllOnes == Bit64

\* consts/msr.rs
MSR_EFER == {7, 30, 31}
MSR_IA32_MISC_ENABLE == {5, 7, 8}
MSR_IA32_BIOS_SIGN_ID == {0, 1, 3, 7}
MSR_IA32_CR_PAT == {0, 1, 2, 4, 5, 6, 9}
MSR_IA32_APIC_BASE == {0, 1, 3, 4}

\* fast string on, PEBS and BTS unavailable: 1 | ((1 << 12) | (1 << 11))
misc_enable == {0, 11, 12}

X86_CR0_PE == {0}
X86_CR0_NE == {5}
X86_CR0_PG == {31}
X86_CR4_PAE == {5}
X86_CR4_VMXE == {13}
EFER_LME == {8}
EFER_LMA == {10}

\* VirtualMachine::new: msr_list = Except(empty), msr_policy = GP
\* the guest physical addresses of the emulated windows (0xfee00000,
\* 0xfec00000, 1 GiB) and the flags of IA32_APIC_BASE (Intel SDM Figure 10-26)
APIC_BASE == {21, 22, 23} \cup (25..31)
IO_APIC_BASE == {22, 23} \cup (25..31)
virtio_base == {30}
MSR_IA32_APIC_BASE_ENABLED == {11}
MSR_IA32_APIC_BASE_BSP == {8}
PageOffsetBits == 0..11

InitExits ==
    /\ vmCfg = [list |-> "Except", set |-> {}, policy |-> "GP"]
    /\ gst = [rax |-> {}, rcx |-> {}, rdx |-> {}, efer |-> {}, pat_msr |-> {},
              msr_apic_base |-> APIC_BASE \cup MSR_IA32_APIC_BASE_ENABLED \cup MSR_IA32_APIC_BASE_BSP, cr0 |-> X86_CR0_PE, cr3 |-> {}, cr4 |-> {},
              cr0_shadow |-> {}, cr4_shadow |-> {}, ia32e |-> FALSE, exc |-> "none"]
    /\ hx = [kind |-> "none", via |-> "none", arg |-> 0, insn |-> <<>>, size |-> 0,
             res |-> "none"]
    /\ last_ept_gpa = {} /\ ept_count = 0
    /\ eptRun = [gpa |-> {}, n |-> 0]
    /\ vmcs_ctrl = [cap |-> {}, one |-> {}, zero |-> {}, r |-> {}, res |-> "none"]

HandlerErrors == {"Unhandled", "Program", "Panic"}

\* the run loop goes on after the last handler
ExitsRunning == hx.res \notin HandlerErrors

ExitFrame == UNCHANGED <<virtioSide, irqVars, ioVars, cpuVars, regVars, vthVars, vcpuDropped,
                         apicVars, pathVars, lifeVars, panicSite>>

\* the embedding program sets vm.msr_list and vm.msr_policy before the start
SetMsrPolicy(list, set, policy) ==
    /\ hx.kind = "none"
    /\ vmCfg' = [list |-> list, set |-> set, policy |-> policy]
    /\ UNCHANGED <<gst, hx, eptVars, vmcs_ctrl>>
    /\ ExitFrame

\* write_msr_to_reg
write_msr_to_reg(g, v) == [g EXCEPT !.rax = Low32(v), !.rdx = High32(v)]

\* a handler that treats every MSR as one the policy list selects
msr_listed_always(cfg, msr) == TRUE

\* the match on gth.vm.msr_list: is the policy applied to this MSR
msr_listed(cfg, msr) ==
    IF cfg.list = "Apply" THEN msr \in cfg.set ELSE msr \notin cfg.set

\* msr_apply_policy; rnd is what rand::random() gives
msr_apply_policy(g, cfg, new_value, rnd) ==
    CASE cfg.policy = "GP" ->
           [g |-> [g EXCEPT !.exc = "GP"], via |-> "policy", res |-> "Resume"]
      [] cfg.policy = "AllOne" ->
           [g |-> IF ~new_value.some THEN write_msr_to_reg(g, AllOnes) ELSE g,
            via |-> "policy", res |-> "Next"]
      [] OTHER ->
           [g |-> IF ~new_value.some THEN write_msr_to_reg(g, rnd) ELSE g,
            via |-> "policy", res |-> "Next"]

\* msr_unknown
msr_unknown(g) == [g |-> g, via |-> "unknown", res |-> "Unhandled"]

\* a read-only MSR that refuses a write of another value, as emsr_miscenable
\* of vthread-rs does
msr_read_only_strict(g, new_value, default_value) ==
    IF ~new_value.some
    THEN [g |-> write_msr_to_reg(g, default_value), via |-> "read_only", res |-> "Next"]
    ELSE [g |-> g, via |-> "read_only",
          res |-> IF new_value.v = default_value THEN "Next" ELSE "Unhandled"]

\* msr_read_only: a write of another value is logged and dropped
msr_read_only(g, new_value, default_value) ==
    IF ~new_value.some
    THEN [g |-> write_msr_to_reg(g, default_value), via |-> "read_only", res |-> "Next"]
    ELSE [g |-> g, via |-> "read_only", res |-> "Next"]

\* msr_efer, msr_pat, msr_apicbase
msr_efer(g, new_value) ==
    IF ~new_value.some
    THEN [g |-> write_msr_to_reg(g, g.efer), via |-> "efer", res |-> "Next"]
    ELSE [g |-> [g EXCEPT !.efer = new_value.v], via |-> "efer", res |-> "Next"]

msr_pat(g, new_value) ==
    IF ~new_value.some
    THEN [g |-> write_msr_to_reg(g, g.pat_msr), via |-> "pat", res |-> "Next"]
    ELSE [g |-> [g EXCEPT !.pat_msr = new_value.v], via |-> "pat", res |-> "Next"]

msr_apicbase(g, new_value) ==
    IF ~new_value.some
    THEN [g |-> write_msr_to_reg(g, g.msr_apic_base), via |-> "apicbase", res |-> "Next"]
    ELSE [g |-> [g EXCEPT !.msr_apic_base = new_value.v], via |-> "apicbase", res |-> "Next"]

RecognisedMsrs ==
    {MSR_EFER, MSR_IA32_MISC_ENABLE, MSR_IA32_BIOS_SIGN_ID, MSR_IA32_CR_PAT,
     MSR_IA32_APIC_BASE}

\* handle_msr_access on the guest state g of the exit
handle_msr_access(g, cfg, read, rnd) ==
    LET msr == Low32(g.rcx)
        new_value == [some |-> ~read, v |-> IF read THEN {} ELSE Shl32(g.rdx) \cup Low32(g.rax)]
    IN  CASE msr = MSR_EFER -> msr_efer(g, new_value)
          [] msr = MSR_IA32_MISC_ENABLE -> msr_read_only(g, new_value, misc_enable)
          [] msr = MSR_IA32_BIOS_SIGN_ID -> msr_read_only(g, new_value, {})
          [] msr = MSR_IA32_CR_PAT -> msr_pat(g, new_value)
          [] msr = MSR_IA32_APIC_BASE -> msr_apicbase(g, new_value)
          [] OTHER -> IF msr_listed(cfg, msr)
                      THEN msr_apply_policy(g, cfg, new_value, rnd)
                      ELSE msr_unknown(g)

\* a RDMSR or WRMSR exit with the guest's RCX, RDX and RAX, and its handler
MsrAccess(read, rcx, rdx, rax, rnd) ==
    /\ ExitsRunning
    /\ LET g == [gst EXCEPT !.rcx = rcx, !.rdx = rdx, !.rax = rax, !.exc = "none"]
           r == handle_msr_access(g, vmCfg, read, rnd)
       IN  /\ gst' = r.g
           /\ hx' = [kind |-> IF read THEN "rdmsr" ELSE "wrmsr", via |-> r.via, arg |-> 0,
                     insn |-> <<>>, size |-> 0,
                     res |-> r.res]
    /\ UNCHANGED <<vmCfg, eptVars, vmcs_ctrl>>
    /\ ExitFrame

\* vmx_guest_reg, for the registers the model keeps
vmx_guest_reg(g, num) == CASE num = 0 -> g.rax [] num = 1 -> g.rcx [] OTHER -> g.rdx

\* the long-mode bookkeeping of handle_cr after a move to CR0 or CR4
cr_long_mode(g) ==
    LET long_mode == /\ X86_CR0_PE \subseteq g.cr0 /\ X86_CR0_PG \subseteq g.cr0
                     /\ X86_CR4_PAE \subseteq g.cr4 /\ EFER_LME \subseteq g.efer
        lma == EFER_LMA \subseteq g.efer
    IN  CASE long_mode /\ ~lma -> [g EXCEPT !.efer = @ \cup EFER_LMA, !.ia32e = TRUE]
          [] ~long_mode /\ lma -> [g EXCEPT !.efer = @ \ EFER_LMA, !.ia32e = FALSE]
          [] OTHER -> g

\* the inner match of handle_cr for a move to CR3
cr_move_to_cr3(g, new_value) == [g |-> g, res |-> "Unhandled"]

\* handle_cr on the exit qualification (SDM table 27-3)
handle_cr(g, qual) ==
    LET cr == qual % 16
        access_type == (qual \div 16) % 4
        new_value == vmx_guest_reg(g, (qual \div 256) % 16)
    IN  CASE cr = 8 -> [g |-> g, res |-> "Unhandled"]
          [] cr \notin {0, 3, 4} -> [g |-> g, res |-> "Panic"]
          [] access_type # 0 -> [g |-> g, res |-> "Unhandled"]
          [] cr = 0 ->
               LET v == new_value \cup X86_CR0_NE
               IN  [g |-> cr_long_mode([g EXCEPT !.cr0_shadow = v, !.cr0 = v]),
                    res |-> "Next"]
          [] cr = 4 ->
               LET v == new_value \cup X86_CR4_VMXE
               IN  [g |-> cr_long_mode([g EXCEPT !.cr4_shadow = v \ X86_CR4_VMXE, !.cr4 = v]),
                    res |-> "Next"]
          [] OTHER -> cr_move_to_cr3(g, new_value)

\* exit qualifications of control-register exits: move to CR0/3/4/8, move
\* from CR3/8, CLTS and LMSW (both on CR0), with source register 0..1
CrQuals ==
    {cr + 16 * 0 + 256 * r : cr \in {0, 3, 4, 8}, r \in 0..1}
      \cup {cr + 16 * 1 + 256 * r : cr \in {3, 8}, r \in 0..1}
      \cup {0 + 16 * t : t \in {2, 3}}

\* a control-register exit and its handler
CrAccess(qual, value) ==
    /\ ExitsRunning
    /\ LET g == [gst EXCEPT !.rax = value, !.rcx = value, !.rdx = value, !.exc = "none"]
           r == handle_cr(g, qual)
       IN  /\ gst' = r.g
           /\ hx' = [kind |-> "cr", via |-> "cr", arg |-> qual, insn |-> <<>>, size |-> 0,
                     res |-> r.res]
    /\ UNCHANGED <<vmCfg, eptVars, vmcs_ctrl>>
    /\ ExitFrame

(***************************************************************************)
(* decode.rs: the instruction of an EPT violation in an emulated window.   *)
(* An instruction is the sequence of its bytes; positions are 1-based.     *)
(***************************************************************************)
\* X86Decode::default
X86DecodeDefault ==
    [prefix_sz |-> 0, opcode_sz |-> 1, imm_sz |-> 0, operand_bytes |-> 4,
     address_bytes |-> 8, is_store |-> FALSE, rex_r |-> FALSE]

\* decode_prefix from byte i on: 0x66, 0x67 and REX (0x4x) prefixes
RECURSIVE decode_prefix_from(_, _, _)
decode_prefix_from(insn, i, d) ==
    IF i > Len(insn) THEN [d EXCEPT !.prefix_sz = i - 1]
    ELSE LET byte == insn[i]
         IN  CASE byte = 102 ->
                    decode_prefix_from(insn, i + 1,
                        [d EXCEPT !.operand_bytes = IF @ = 4 THEN 2 ELSE @])
               [] byte = 103 ->
                    decode_prefix_from(insn, i + 1, [d EXCEPT !.address_bytes = 4])
               [] byte \div 16 = 4 ->
                    decode_prefix_from(insn, i + 1,
                        [d EXCEPT !.operand_bytes = IF BitAnd(byte, 8) > 0 THEN 8 ELSE @,
                                  !.rex_r = IF BitAnd(byte, 4) > 0 THEN TRUE ELSE @])
               [] OTHER -> [d EXCEPT !.prefix_sz = i - 1]

decode_prefix(insn) == decode_prefix_from(insn, 1, X86DecodeDefault)

\* modrm_get_reg: the reg field of the ModRM byte, with REX.R
modrm_get_reg(insn, d) ==
    LET modrm == insn[d.prefix_sz + d.opcode_sz + 1]
        reg == (modrm \div 8) % 8
    IN  IF d.rex_r THEN reg + 8 ELSE reg

\* decode_opcode: ok is FALSE for Err(Program("unknown opcode"))
decode_opcode(insn, d) ==
    LET op == insn[d.prefix_sz + 1]
        unknown == [ok |-> FALSE, d |-> d]
    IN  CASE op = 128 ->       \* 0x80
               IF modrm_get_reg(insn, d) \in {0, 7}
               THEN [ok |-> TRUE, d |-> [d EXCEPT !.imm_sz = 1, !.operand_bytes = 1]]
               ELSE unknown
          [] op = 129 ->       \* 0x81
               IF modrm_get_reg(insn, d) \in {0, 7}
               THEN [ok |-> TRUE, d |-> [d EXCEPT !.imm_sz = 4]]
               ELSE unknown
          [] op = 58 ->        \* 0x3a
               [ok |-> TRUE, d |-> [d EXCEPT !.operand_bytes = 1]]
          [] op \in {136, 138} ->   \* 0x88, 0x8a
               [ok |-> TRUE, d |-> [d EXCEPT !.operand_bytes = 1,
                                             !.is_store = BitAnd(op, 2) = 0]]
          [] op \in {137, 139} ->   \* 0x89, 0x8b
               [ok |-> TRUE, d |-> [d EXCEPT !.is_store = BitAnd(op, 2) = 0]]
          [] op = 15 ->        \* 0x0f: 0xb7 movzw, 0xb6 movzb
               CASE insn[d.prefix_sz + 2] = 183 ->
                      [ok |-> TRUE, d |-> [d EXCEPT !.opcode_sz = 2, !.operand_bytes = 2]]
                 [] insn[d.prefix_sz + 2] = 182 ->
                      [ok |-> TRUE, d |-> [d EXCEPT !.opcode_sz = 2, !.operand_bytes = 1]]
                 [] OTHER -> [ok |-> FALSE, d |-> [d EXCEPT !.opcode_sz = 2]]
          [] OTHER -> unknown

\* the access callbacks apic_access, ioapic_access and virtio_mmio for a load:
\* the first two ignore the size, virtio_mmio panics on a size other than
\* 1, 2 or 4; val is what the device register holds
mem_access_load(window, size, val) ==
    IF window = "virtio" /\ size \notin {1, 2, 4}
    THEN [res |-> "Panic", val |-> {}]
    ELSE [res |-> "Ok", val |-> val]

\* a guest register written by execute_op
write_guest_reg(g, num, v) ==
    CASE num = 0 -> [g EXCEPT !.rax = v]
      [] num = 1 -> [g EXCEPT !.rcx = v]
      [] OTHER -> [g EXCEPT !.rdx = v]

\* execute_op for the instructions decode_opcode accepts; size is the size
\* the access callback was called with, 0 when it was not called
execute_op(g, insn, d, window, val) ==
    LET op == insn[d.prefix_sz + 1]
    IN  CASE op \in {128, 129} ->
               CASE modrm_get_reg(insn, d) = 0 -> [g |-> g, res |-> "Program", size |-> 0]
                 [] modrm_get_reg(insn, d) = 7 -> [g |-> g, res |-> "Panic", size |-> 0]
                 [] OTHER -> [g |-> g, res |-> "Program", size |-> 0]
          [] op \in {136, 137, 138, 139} ->
               IF d.is_store
               THEN [g |-> g,
                     res |-> IF window = "virtio" /\ d.operand_bytes \notin {1, 2, 4}
                             THEN "Panic" ELSE "Ok",
                     size |-> d.operand_bytes]
               ELSE LET a == mem_access_load(window, d.operand_bytes, val)
                    IN  IF a.res # "Ok"
                        THEN [g |-> g, res |-> a.res, size |-> d.operand_bytes]
                        ELSE [g |-> write_guest_reg(g, modrm_get_reg(insn, d),
                                       IF d.operand_bytes = 4 THEN Low32(a.val) ELSE a.val),
                              res |-> "Ok", size |-> d.operand_bytes]
          [] OTHER -> [g |-> g, res |-> "Program", size |-> 0]

\* emulate_mem_insn
emulate_mem_insn(g, insn, window, val) ==
    LET dec == decode_opcode(insn, decode_prefix(insn))
    IN  IF ~dec.ok THEN [g |-> g, res |-> "Program", size |-> 0]
        ELSE execute_op(g, insn, dec.d, window, val)

\* the window handle_ept_violation finds the address in; the virtio window
\* is the page of the one device
ept_window(g, gpa) ==
    CASE gpa \ PageOffsetBits = g.msr_apic_base \ PageOffsetBits -> "lapic"
      [] gpa \ PageOffsetBits = IO_APIC_BASE -> "ioapic"
      [] gpa \ PageOffsetBits = virtio_base -> "virtio"
      [] OTHER -> "none"

\* handle_ept_violation: the LAPIC arm unwraps the result of the emulation,
\* the other two return its error
handle_ept_violation(g, gpa, insn, val) ==
    LET window == ept_window(g, gpa)
        e == emulate_mem_insn(g, insn, window, val)
    IN  CASE window = "none" -> [g |-> g, res |-> "Resume", size |-> 0, via |-> window]
          [] e.res = "Ok" -> [g |-> e.g, res |-> "Next", size |-> e.size, via |-> window]
          [] window = "lapic" -> [g |-> g, res |-> "Panic", size |-> e.size, via |-> window]
          [] OTHER -> [g |-> g, res |-> e.res, size |-> e.size, via |-> window]

\* an EPT violation exit at gpa whose instruction is insn, and its handler
\* cfg!(debug_assertions): the model is of the debug build
debug_assertions == TRUE

\* if ept_count > 10
EptFaultLimit == 10

\* if ept_gpa == last_ept_gpa { ept_count += 1 } else { ept_count = 0; last_ept_gpa = ept_gpa }
ept_recount(last, count, gpa) ==
    IF gpa = last THEN [last |-> last, count |-> count + 1]
    ELSE [last |-> gpa, count |-> 0]

\* the faults that no window claims, counted one by one: a run starts at 1
EptRunAfter(run, gpa) ==
    [gpa |-> gpa, n |-> IF run.n > 0 /\ run.gpa = gpa THEN run.n + 1 ELSE 1]

\* the arm of VMX_REASON_EPT_VIOLATION in run_on_inner: handle_ept_violation,
\* then the count of the faults it answered with Resume and the error
\* Unhandled(reason, ..) once the count is above the limit
EptViolation(gpa, insn, val) ==
    /\ ExitsRunning
    /\ LET r == handle_ept_violation(gst, gpa, insn, val)
           counted == debug_assertions /\ r.res = "Resume"
           c == IF counted THEN ept_recount(last_ept_gpa, ept_count, gpa)
                ELSE [last |-> last_ept_gpa, count |-> ept_count]
           abort == counted /\ c.count > EptFaultLimit
       IN  /\ gst' = [r.g EXCEPT !.exc = "none"]
           /\ hx' = [kind |-> "ept", via |-> r.via, arg |-> 0, insn |-> insn,
                     size |-> r.size, res |-> IF abort THEN "Unhandled" ELSE r.res]
           /\ last_ept_gpa' = c.last
           /\ ept_count' = c.count
           /\ eptRun' = IF r.res = "Resume" THEN EptRunAfter(eptRun, gpa) ELSE eptRun
    /\ UNCHANGED <<vmCfg, vmcs_ctrl>>
    /\ ExitFrame

\* IoApic::new, Apic::new and empty channels
InitIrqLines(redirs) ==
    /\ irqChan = <<>> /\ sendSeq = 0
    /\ ioIrq = [irq |-> Com1Irq, seq |-> 0] /\ ioDests = <<>> /\ ioVector = 0
    /\ ioValue \in redirs /\ ioReg = 0
    /\ kicked = FALSE /\ innerResult = "none" /\ retval = "none"
    /\ handleResult = "none"
    /\ rip = 0 /\ instr_len = 0 /\ irq_ignore = 0 /\ vcpuDropped = "no"
    /\ InitExits
    /\ irr = {} /\ isr_vec = <<>> /\ entryValid = FALSE /\ irqWnd = FALSE
    /\ tpr = 0 /\ ppr = 0 /\ entryVec = 0 /\ rflags_if = FALSE
    /\ lapic = ApicNew /\ now = 0
    /\ vectorQ = <<>> /\ recvLog = <<>> /\ pushLog = <<>> /\ drained = 0
    /\ lateSeq = {} /\ firedSeq = {}
    /\ panicSite = {}

\* a machine on which no vthread is spawned
InitIrqPath(redirs) == InitIrqLines(redirs) /\ NoVthreads

\* a VM has been created; its threads wait for work
InitRunning ==
    /\ hvVm = TRUE
    /\ vmm = [o \in Owners |-> IF o = 1 THEN "held" ELSE "none"]
    /\ newResult = [o \in Owners |->
                       IF o = 1 THEN [res |-> "Ok", other |-> FALSE]
                       ELSE [res |-> "none", other |-> FALSE]]
    /\ vm = "alive" /\ serPc = "read" /\ ioPc = "recv" /\ wPc = "wait_virtq"
    /\ devAlive = TRUE /\ irqSenders = AllSenders

(***************************************************************************)
(* The Status register and feature negotiation of a virtio device.         *)
(***************************************************************************)
InitStatus ==
    /\ InitDevice({[i \in Heads |-> DescW]}) /\ InitIrqPath({PhysicalRedir}) /\ InitRunning
    /\ pc = "dispatch" /\ reason = "MMIO" /\ space = "vm" /\ vcpuCreated = TRUE
    \* the guest thread was made by GuestThread::new alone: no vector channel
    /\ vectorSenders = FALSE /\ vectorRecv = FALSE

NextStatus ==
    \/ \E v \in StatusVals : WriteStatus(v)
    \/ ResetQueues
    \/ \E v \in FeatVals : WriteDriverFeatures(v)
    \/ \E v \in SelVals : WriteDriverFeaturesSel(v)
    \/ \E v \in SelVals : WriteQueueSel(v)
    \/ \E v \in NumVals : WriteQueueNum(v)
    \/ \E f \in QueueFields : \E v \in AddrLowVals : WriteQueueAddr(f, FALSE, v)
    \/ \E f \in QueueFields : \E v \in AddrHighVals \cup {1} : WriteQueueAddr(f, TRUE, v)

SpecStatus == InitStatus /\ [][NextStatus]_vars

(***************************************************************************)
(* The queue of a virtio device, its driver and its worker, while the vCPU *)
(* thread handles the driver's MMIO accesses.  The driver has completed    *)
(* the handshake (features VERSION_1, status ACKNOWLEDGE | DRIVER |        *)
(* FEATURES_OK | DRIVER_OK) and has written QueueNum.                      *)
(***************************************************************************)
DriverUp ==
    VIRTIO_CONFIG_S_ACKNOWLEDGE + VIRTIO_CONFIG_S_DRIVER
        + VIRTIO_CONFIG_S_FEATURES_OK + VIRTIO_CONFIG_S_DRIVER_OK
NegotiatedFeat == [lo |-> 0, hi |-> 1]

InitVirtio ==
    /\ InitIrqPath({PhysicalRedir}) /\ InitRunning
    /\ pc = "dispatch" /\ reason = "MMIO" /\ space = "vm" /\ vcpuCreated = TRUE
    \* the guest thread was made by GuestThread::new alone: no vector channel
    /\ vectorSenders = FALSE /\ vectorRecv = FALSE
    /\ status = DriverUp /\ dri_feat = NegotiatedFeat /\ dri_feat_sel = 1 /\ qsel = 0
    /\ qready = 0 /\ virtq = [NewVirtq EXCEPT !.num = RingSize] /\ isr = 0
    /\ cfg_gen = 0
    /\ taskChan = <<>> /\ virtqChan = <<>>
    /\ wVirtq = NewVirtq /\ current_index = 0 /\ avail_index = 0 /\ wLen = 0
    /\ wHead = 0
    /\ wTaskEp = 0
    /\ availIdx = 0 /\ availFlags = 0 /\ availRing = [i \in 0..(RingSize - 1) |-> 0]
    /\ descTable \in DescTables
    /\ usedIdx = 0 /\ usedRing = [i \in 0..(RingSize - 1) |-> [id |-> 0, len |-> 0]]
    /\ epoch = 0 /\ lastSent = NewVirtq /\ featAccepted = TRUE /\ evLog = <<>>
    /\ lastNotify = [value |-> 0, tick |-> 0]

NextVirtio ==
    \/ \E v \in {0, 11, DriverUp} : WriteStatus(v)
    \/ ResetQueues
    \/ \E v \in {1} : WriteDriverFeatures(v)
    \/ \E v \in AddrLowVals : WriteQueueAddr("desc", FALSE, v)
    \/ \E v \in AckVals : WriteInterruptAck(v)
    \/ \E v \in {0, 1} : WriteQueueReady(v)
    \/ \E v \in {0} : WriteQueueNotify(v)
    \/ \E h \in {0} : GuestPublish(h)
    \/ \E h \in {1} : GuestRewrite(h)
    \/ ServeRecvVirtq
    \/ ServeRecvTask
    \/ ServeLoop
    \/ ServePushUsed
    \/ ServeSetIsr
    \/ ServeSendIrq
    \/ IoRecv

SpecVirtio == InitVirtio /\ [][NextVirtio]_vars

(***************************************************************************)
(* The worker of a ready queue serving the driver's notifications, while   *)
(* the driver publishes heads, toggles NO_INTERRUPT, acknowledges          *)
(* interrupts, stops and restarts the queue and resets the device.         *)
(***************************************************************************)
InitServe == InitVirtio

NextServe ==
    \/ \E v \in {0} : WriteStatus(v)
    \/ ResetQueues
    \/ \E v \in AckVals : WriteInterruptAck(v)
    \/ \E v \in {0, 1} : WriteQueueReady(v)
    \/ \E v \in {0} : WriteQueueNotify(v)
    \/ \E h \in {0} : GuestPublish(h)
    \/ \E f \in {0, 1} : GuestSetFlags(f)
    \/ ServeRecvVirtq
    \/ ServeRecvTask
    \/ ServeLoop
    \/ ServePushUsed
    \/ ServeSetIsr
    \/ ServeSendIrq
    \/ IoRecv

SpecServe == InitServe /\ [][NextServe]_vars

(***************************************************************************)
(* The registers of a device driven from reset through the handshake, and  *)
(* the channels to the queue's worker: QueueSel, QueueReady and            *)
(* QueueNotify with in-range and out-of-range values, and resets.  The     *)
(* driver publishes nothing, so the worker only takes what it is sent.     *)
(***************************************************************************)
InitRegs == InitStatus

NextRegs ==
    \/ \E v \in {0, 11, DriverUp} : WriteStatus(v)
    \/ ResetQueues
    \/ \E v \in {1} : WriteDriverFeatures(v)
    \/ \E v \in {1} : WriteDriverFeaturesSel(v)
    \/ \E v \in SelVals : WriteQueueSel(v)
    \/ \E v \in {0, 1, 2} : WriteQueueReady(v)
    \/ \E v \in {0, 1} : WriteQueueNotify(v)
    \/ ServeRecvVirtq
    \/ ServeRecvTask
    \/ ServeLoop

SpecRegs == InitRegs /\ [][NextRegs]_vars

(***************************************************************************)
(* The IRQ path and the run loop of vCPU 0: a VM loaded by linux::load,    *)
(* whose guest thread is about to be started.                              *)
(***************************************************************************)
InitIrq ==
    /\ InitDevice({[i \in Heads |-> DescW]}) /\ InitIrqPath(RedirTables) /\ InitRunning
    /\ pc = "start" /\ reason = "none" /\ space = "default" /\ vcpuCreated = FALSE
    /\ vectorSenders = TRUE /\ vectorRecv = TRUE

NextIrq ==
    \/ SerialRead
    \/ Com1Write
    \/ IoRecv
    \/ IoSend
    \/ \E f \in BOOLEAN : IoKick(f)
    \/ \E f \in BOOLEAN : Start(f)
    \/ \E f \in BOOLEAN : EnterSpace(f)
    \/ \E f \in BOOLEAN : Setup(f)
    \/ \E r \in Reasons, f \in BOOLEAN : GuestExit(r, GuestQuiet, f)
    \/ \E f \in BOOLEAN : HandleExit(f)
    \/ Drain
    \/ \E f \in BOOLEAN, open \in BOOLEAN : Inject(f, open)
    \/ \E f \in BOOLEAN : Restore(f)
    \/ \E f \in BOOLEAN : Dump(f)

SpecIrq == InitIrq /\ [][NextIrq]_vars

(***************************************************************************)
(* The life cycle: VMManagers are made and dropped, a VM is created,       *)
(* loaded, run until the guest halts, and dropped.                         *)
(***************************************************************************)
InitLife ==
    /\ InitDevice({[i \in Heads |-> DescW]}) /\ InitIrqPath({PhysicalRedir})
    /\ hvVm = FALSE
    /\ vmm = [o \in Owners |-> "none"]
    /\ newResult = [o \in Owners |-> [res |-> "none", other |-> FALSE]]
    /\ vm = "none" /\ serPc = "none" /\ ioPc = "none" /\ wPc = "none"
    /\ devAlive = FALSE /\ irqSenders = {}
    /\ pc = "none" /\ reason = "none" /\ space = "default" /\ vcpuCreated = FALSE
    /\ vectorSenders = FALSE /\ vectorRecv = FALSE

NextLife ==
    \/ \E o \in Owners : VmmNew(o)
    \/ \E o \in Owners : VmmDrop(o)
    \/ \E o \in Owners : CreateVm(o)
    \/ Load
    \/ VmDrop
    \/ SerialRead
    \/ SerialEof
    \/ IoRecv
    \/ IoSend
    \/ \E f \in BOOLEAN : IoKick(f)
    \/ \E v \in {0, 1} : WriteQueueReady(v)
    \/ ServeRecvVirtq
    \/ ServeRecvTask
    \/ Start(FALSE)
    \/ EnterSpace(FALSE)
    \/ Setup(FALSE)
    \/ \E r \in {"MMIO", "HLT"} : GuestExit(r, GuestQuiet, FALSE)
    \/ HandleExit(FALSE)
    \/ Drain
    \/ Inject(FALSE, TRUE)
    \/ Restore(FALSE)

SpecLife == InitLife /\ [][NextLife]_vars

\* the threads of the hypervisor are scheduled; stdin and the guest are not
\* obliged to do anything
SpecLifeFair ==
    /\ SpecLife
    /\ WF_vars(IoRecv) /\ WF_vars(IoSend) /\ WF_vars(\E f \in BOOLEAN : IoKick(f))
    /\ WF_vars(ServeRecvVirtq) /\ WF_vars(ServeRecvTask)

(***************************************************************************)
(* Properties of the virtio device                                         *)
(***************************************************************************)
IsPrefix(a, b) == Len(a) <= Len(b) /\ SubSeq(b, 1, Len(a)) = a

\* the worker is serving a notification
Serving == wPc \in {"loop", "push", "isr", "irq"}

\* C2: whenever the worker serves a notification that the driver sent after
\* the most recent 0->1 transition of QueueReady, the queue definition it
\* uses is the one sent to it at that transition, also when the device was
\* reset and set up again in between.
C2_WorkerUsesLatestVirtq ==
    (Serving /\ epoch > 0 /\ wTaskEp = epoch) => wVirtq = to_hva(lastSent)

\* C3: for the head the worker is processing, the used entry is written and
\* used.idx advanced first, then VIRTIO_INT_VRING is ORed into the ISR, then
\* the IRQ is sent; at the time of the later steps the used entry is in memory.
C3_UsedThenIsrThenIrq ==
    /\ IsPrefix(evLog, <<"used", "isr", "irq">>)
    /\ wPc \in {"isr", "irq"} =>
          /\ usedIdx > 0
          /\ usedRing[((usedIdx - 1) % wVirtq.num) % RingSize].len = wLen
    /\ wPc = "irq" => evLog = <<"used", "isr">>

\* a head was processed with NO_INTERRUPT clear, up to the IRQ
C3_Witness == evLog = <<"used", "isr", "irq">> /\ irqChan # <<>>

\* C4: the stored status respects the order of the virtio 1.0 handshake:
\* DRIVER only with ACKNOWLEDGE, FEATURES_OK only with DRIVER and after the
\* device verified the features, DRIVER_OK only with an accepted FEATURES_OK.
C4_StatusOrder ==
    /\ HasBit(status, VIRTIO_CONFIG_S_DRIVER) => HasBit(status, VIRTIO_CONFIG_S_ACKNOWLEDGE)
    /\ HasBit(status, VIRTIO_CONFIG_S_FEATURES_OK) =>
          HasBit(status, VIRTIO_CONFIG_S_DRIVER) /\ featAccepted
    /\ HasBit(status, VIRTIO_CONFIG_S_DRIVER_OK) =>
          HasBit(status, VIRTIO_CONFIG_S_FEATURES_OK) /\ featAccepted

(***************************************************************************)
(* Properties of the IRQ path and the run loop                             *)
(***************************************************************************)
\* C1: a vector that was next in the vector queue of vCPU 0 when the I/O APIC
\* thread called interrupt_vcpu for it, while the vCPU thread was handling a
\* vm exit, has been taken from the queue and set in the IRR in that same
\* iteration, by the time the guest is entered again.
C1_LateVectorFired == pc = "guest" => lateSeq \subseteq firedSeq

\* C6: whenever run_on returns after run_on_inner ran, it returns the result
\* of run_on_inner (its first error, or Ok) and the vCPU is in the default
\* memory space.
C6_AlwaysRestored ==
    (pc = "returned" /\ innerResult # "none") =>
        space = "default" /\ retval = innerResult

\* the conditions the guest can trigger that the hypervisor does not implement
Unimplemented == {"APIC_READ_CURR_COUNT", "APIC_WRITE_TSC_DDL", "UNKNOWN"}

\* C8: no host thread has panicked at one of the unimplemented conditions
\* (CURR_COUNT read, TSC-deadline timer, readable descriptor after a writable
\* one), and an exit for such a condition ends the loop with Unhandled.
C8_UnimplementedReported ==
    /\ panicSite \cap (Unimplemented \cup {"get_desc_chain"}) = {}
    /\ (pc = "restore" /\ reason \in Unimplemented
        /\ innerResult \notin {"hv", "run_until"}) => innerResult = "Unhandled"

\* a vector is taken from the vector queue in this step
TakesVector == vectorQ # <<>> /\ vectorQ' = Tail(vectorQ)

\* C9: an iteration takes at most one vector from vector_receiver, and takes
\* it after the exit handler has returned Resume or Next and before the
\* guest is entered again.
C9_OneDrainAfterHandler ==
    /\ [](drained <= 1)
    /\ [][TakesVector =>
            /\ pc = "drain" /\ pc' = "inject"
            /\ handleResult \in {"Resume", "Next"}]_vars

\* an iteration has taken a vector and has not entered the guest yet
C9_Witness == drained = 1 /\ pc = "inject" /\ irr # {}

\* C10: the vectors were pushed in the order the I/O APIC thread took the
\* IRQs from the IRQ channel, an IRQ is taken only when the one before has
\* been dispatched, and the vector queue holds the pushed vectors in that order.
C10_PushOrder ==
    LET n == Len(pushLog)
        k == Len(vectorQ)
    IN  /\ n <= Len(recvLog)
        /\ SubSeq(recvLog, 1, n) = pushLog
        /\ ioPc \in {"recv", "kick"} => Len(recvLog) = n
        /\ ioPc = "send" => Len(recvLog) = n + 1
        /\ k <= n
        /\ [i \in 1..k |-> vectorQ[i].seq] = SubSeq(pushLog, n - k + 1, n)

\* two vectors are queued for vCPU 0
C10_Witness == Len(vectorQ) = 2 /\ Len(pushLog) = 2

(***************************************************************************)
(* Properties of the life cycle                                            *)
(***************************************************************************)
\* C5: once the VirtualMachine is dropped, the virtqueue worker and the
\* I/O APIC thread eventually terminate.
C5_ThreadsTerminate == (vm = "dropped") ~> (WorkerGone /\ IoApicGone)

InitLoop ==
    /\ InitDevice({[i \in Heads |-> DescW]}) /\ InitIrqPath({PhysicalRedir}) /\ InitRunning
    /\ pc = "start" /\ reason = "none" /\ space = "default" /\ vcpuCreated = FALSE
    /\ vectorSenders = TRUE /\ vectorRecv = TRUE

NextLoop ==
    \/ SerialRead
    \/ IoRecv
    \/ IoSend
    \/ \E f \in BOOLEAN : IoKick(f)
    \/ \E f \in BOOLEAN : Start(f)
    \/ \E f \in BOOLEAN : EnterSpace(f)
    \/ \E f \in BOOLEAN : Setup(f)
    \/ \E r \in {"IRQ", "IRQ_WND", "CPUID", "HLT", "APIC_READ_CURR_COUNT"}, g \in GuestStates :
           GuestExit(r, g, FALSE)
    \/ \E f \in BOOLEAN : HandleExit(f)
    \/ Drain
    \/ \E f \in BOOLEAN, open \in BOOLEAN : Inject(f, open)
    \/ \E f \in BOOLEAN : Restore(f)
    \/ \E f \in BOOLEAN : Dump(f)
    \/ VcpuDrop

SpecLoop == InitLoop /\ [][NextLoop]_vars


(***************************************************************************)
(* Properties of the delivery of one IRQ                                   *)
(***************************************************************************)
\* C11: with the redirection entry of IRQ 4 holding vector 0x24, physical
\* mode and dest 0, every IRQ the I/O APIC thread has taken from the channel
\* has had its vector pushed onto vCPU 0's queue exactly once before the call
\* of interrupt_vcpu: whenever the thread is not between the receive and the
\* push, the pushes are exactly the IRQs taken, and each pushed 0x24.
C11_EveryIrqDelivered ==
    ioValue = PhysicalRedir =>
        /\ ioPc # "send" => pushLog = recvLog
        /\ \A i \in 1..Len(vectorQ) : vectorQ[i].vector = 32 + Com1Irq

(***************************************************************************)
(* Properties of the register writes of a virtio-mmio device               *)
(***************************************************************************)
\* a step in which a QueueReady write takes the queue's qready from 0 to 1
\* (no other register write sets qready to 1)
QueueReadyRises == qready = 0 /\ qready' = 1

\* a step in which a QueueReady write takes qready from 1 to 0 (a reset also
\* clears qready, and calls the config's reset)
QueueReadyFalls == qready = 1 /\ qready' = 0 /\ cfg_gen' = cfg_gen

\* C12: a QueueReady write that changes qready from 0 to 1 sends the queue's
\* current definition to the worker exactly once and nothing on the notify
\* channel; one that changes it from 1 to 0 sends exactly one None on the
\* notify channel and nothing on the definition channel.
C12_ReadySendsOnce ==
    [][/\ QueueReadyRises =>
            /\ virtqChan' = Append(virtqChan, virtq)
            /\ taskChan' = taskChan
       /\ QueueReadyFalls =>
            /\ taskChan' = Append(taskChan, [some |-> FALSE, ep |-> epoch])
            /\ virtqChan' = virtqChan]_vars

\* the queue was made ready and stopped again; the teardown waits for the worker
C12_Witness ==
    /\ qready = 0 /\ epoch = 1 /\ cfg_gen = 0
    /\ Len(taskChan) = 1 /\ ~taskChan[1].some

\* a step that is a QueueNotify write
NotifyStep == lastNotify' # lastNotify

\* the wake the QueueNotify arm sends: Some(())
Wake == [some |-> TRUE, ep |-> epoch]

HandshakeAck == VIRTIO_CONFIG_S_ACKNOWLEDGE
HandshakeDriver == HandshakeAck + VIRTIO_CONFIG_S_DRIVER
HandshakeFeaturesOk == HandshakeDriver + VIRTIO_CONFIG_S_FEATURES_OK

\* dri_feat contains bit 32, VIRTIO_F_VERSION_1
HasVersion1(feat) == feat.hi % 2 = 1

\* the status left by the handshake's next write, at each of its stages
\* (the device was reset, then ACKNOWLEDGE was written, then
\* ACKNOWLEDGE | DRIVER), given what the last write leaves
HandshakeLeaves(last) ==
    /\ status = 0 => StatusAfterWrite(status, HandshakeAck, dri_feat) = HandshakeAck
    /\ status = HandshakeAck =>
           StatusAfterWrite(status, HandshakeDriver, dri_feat) = HandshakeDriver
    /\ status = HandshakeDriver =>
           StatusAfterWrite(status, HandshakeFeaturesOk, dri_feat) = last

\* C14: from a reset device the writes ACKNOWLEDGE, ACKNOWLEDGE | DRIVER and
\* ACKNOWLEDGE | DRIVER | FEATURES_OK leave FEATURES_OK set when dri_feat
\* contains bit 32, and leave the status written with FEATURES_OK cleared
\* when it does not.
C14_HandshakeByVersion1 ==
    HandshakeLeaves(IF HasVersion1(dri_feat) THEN HandshakeFeaturesOk
                    ELSE HandshakeDriver)

\* C14 with the second test of verify_feat: FEATURES_OK stays set when
\* dri_feat contains bit 32 and no bit the device does not offer (for this
\* device: dri_feat is exactly bit 32); otherwise, also when bit 32 is there
\* with an unsupported bit, the status is written with FEATURES_OK cleared.
C14_HandshakeByVerifiedFeatures ==
    HandshakeLeaves(IF dri_feat = [lo |-> 0, hi |-> 1] THEN HandshakeFeaturesOk
                    ELSE HandshakeDriver)

\* the handshake has been written up to FEATURES_OK with verified features
C14_Witness ==
    /\ status = HandshakeFeaturesOk /\ featAccepted
    /\ dri_feat = [lo |-> 0, hi |-> 1]

\* a step in which a write of 0 to Status completes
ResetCompletes == cfg_gen' # cfg_gen

\* C15: when a write of 0 to Status completes, from whatever device state,
\* the status is 0, the accepted driver features are 0, the ISR shared with
\* the worker is 0, the queue's qready is 0 and the config's reset has run.
C15_ResetClearsDevice ==
    [][ResetCompletes =>
            /\ status' = 0
            /\ dri_feat' = [lo |-> 0, hi |-> 0]
            /\ isr' = 0
            /\ qready' = 0
            /\ cfg_gen' = cfg_gen + 1]_vars

(***************************************************************************)
(* Properties of the used ring                                             *)
(***************************************************************************)
\* the used-ring entry the worker wrote last
LastUsed == usedRing[((((usedIdx + IdxMod - 1) % IdxMod) % wVirtq.num)) % RingSize]

\* C16: the used-ring entry the worker has written for the chain it handled
\* last has as id the head of that chain, read from the avail ring, and as
\* len the byte count the handler returned for the chain starting at that head.
C16_UsedEntryOfChain ==
    (evLog # <<>> /\ wVirtq.num > 0) => LastUsed = [id |-> wHead, len |-> wLen]

\* the vthread tests: the functions are spawned on one VM and joined in order
StaticVals == {1, 2}

InitVthread ==
    /\ InitDevice({[i \in Heads |-> DescW]}) /\ InitIrqLines({PhysicalRedir}) /\ InitRunning
    /\ pc = "none" /\ reason = "none" /\ space = "default" /\ vcpuCreated = FALSE
    /\ vectorSenders = FALSE /\ vectorRecv = FALSE
    /\ \E prog \in VthPrograms, a \in StaticVals, b \in StaticVals :
          /\ vth = [t \in VThreads |-> VthNone(prog[t])]
          /\ statics = [A |-> a, B |-> b, A0 |-> a, B0 |-> b]
    /\ testPc = [op |-> "spawn", t |-> 1]
    /\ spurious = 0

VthStep(t) ==
    \/ VthCreate(t)
    \/ VthEnterSpace(t)
    \/ VthSetup(t)
    \/ VthLoad(t)
    \/ VthStore(t)
    \/ VthRet(t)
    \/ VthHalt(t)
    \/ VthHandle(t)
    \/ VthRestore(t)

NextVthread ==
    \/ \E t \in VThreads : VthSpawn(t)
    \/ \E t \in VThreads : VthStep(t)
    \/ \E t \in VThreads : VthSpurious(t)
    \/ \E t \in VThreads : VthJoin(t)

SpecVthread == InitVthread /\ [][NextVthread]_vars

\* every host thread is scheduled and a vCPU in the guest executes
SpecVthreadFair ==
    /\ SpecVthread
    /\ \A t \in VThreads : WF_vars(VthSpawn(t)) /\ WF_vars(VthStep(t)) /\ WF_vars(VthJoin(t))

\* the step of the run loop that ends the handling of an exit and goes on
\* to the next iteration
ExitHandled == pc = "dispatch" /\ pc' = "drain"

\* C17: once an exit has been handled, RIP is the RIP of the exit plus the
\* exit instruction length and the sti / mov-ss blocking bits are clear
\* exactly when the handler returned Next; after Resume the run loop has
\* left RIP and VMCS_GUEST_IGNORE_IRQ as they were.
C17_NextAdvancesResumeKeeps ==
    [][ExitHandled =>
          IF handleResult' = "Next"
          THEN /\ rip' = (rip + instr_len) % RipMod
               /\ BitAnd(irq_ignore', IrqBlockingBits) = 0
               /\ irq_ignore' \div 4 = irq_ignore \div 4
          ELSE /\ handleResult' = "Resume"
               /\ rip' = rip
               /\ irq_ignore' = irq_ignore]_vars

C17_Witness ==
    /\ pc = "drain" /\ handleResult = "Next" /\ reason = "CPUID"
    /\ rip = 2 /\ instr_len = 2 /\ irq_ignore = 4 /\ irr # {}

VthReturned(t) == vth[t].pc \in {"returned", "joined"}

VthBoth == vth[1].fn = "double_a" /\ vth[2].fn = "decrement_b"

C20_DroppedInDefaultSpace == vcpuDropped # "vm"

\* ---------------------------------------------------------------------
\* vm exit handlers of vmexit.rs: MSR accesses and control registers
\* ---------------------------------------------------------------------

\* two MSRs handle_msr_access has no arm for: IA32_TIME_STAMP_COUNTER (0x10)
\* and IA32_FEATURE_CONTROL (0x3a)
MSR_IA32_TSC == {4}
MSR_IA32_FEATURE_CONTROL == {1, 3, 4, 5}
UnknownMsrs == {MSR_IA32_TSC, MSR_IA32_FEATURE_CONTROL}

\* RCX values of the exits: every MSR above, and one with bits above bit 31
MsrRcx == RecognisedMsrs \cup UnknownMsrs \cup {MSR_IA32_TSC \cup {40}}

\* EDX:EAX of a WRMSR (a RDMSR leaves them to the handler) and the values
\* rand::random() returns
MsrWrites == {[rdx |-> {}, rax |-> misc_enable], [rdx |-> {0}, rax |-> EFER_LME]}
MsrRandom == {{1}, {2, 33}}

\* RDMSR and WRMSR exits
MsrExits ==
    {[read |-> TRUE, rcx |-> c, rdx |-> {}, rax |-> {}] : c \in MsrRcx}
      \cup {[read |-> FALSE, rcx |-> c, rdx |-> w.rdx, rax |-> w.rax] :
              c \in MsrRcx, w \in MsrWrites}

\* control-register source values
CrValues == {X86_CR0_PE \cup X86_CR0_PG, X86_CR4_PAE}

InitExitsSpec == InitLoop

NextExits ==
    \/ \E list \in {"Apply", "Except"}, set \in {{}, {MSR_IA32_TSC}},
          policy \in {"GP", "AllOne", "Random"} : SetMsrPolicy(list, set, policy)
    \/ \E e \in MsrExits, rnd \in MsrRandom : MsrAccess(e.read, e.rcx, e.rdx, e.rax, rnd)
    \/ \E qual \in CrQuals, value \in CrValues : CrAccess(qual, value)

SpecExits == InitExitsSpec /\ [][NextExits]_vars

\* the last exit was an access to an MSR without an arm of its own
UnrecognisedMsrExit ==
    /\ hx.kind \in {"rdmsr", "wrmsr"}
    /\ Low32(gst.rcx) \notin RecognisedMsrs

\* C21: an access to an MSR the handler does not recognise is answered by the
\* MsrPolicy exactly when the list is Apply and contains the MSR, or is Except
\* and does not contain it; every other such access ends in Unhandled
C21_PolicyExactlyWhenListed ==
    UnrecognisedMsrExit =>
        LET msr == Low32(gst.rcx)
            listed == \/ vmCfg.list = "Apply" /\ msr \in vmCfg.set
                      \/ vmCfg.list = "Except" /\ msr \notin vmCfg.set
        IN  IF listed
            THEN hx.via = "policy" /\ hx.res \in {"Next", "Resume"}
            ELSE hx.via = "unknown" /\ hx.res = "Unhandled"

C21_Witness ==
    /\ UnrecognisedMsrExit
    /\ vmCfg.list = "Apply"
    /\ Low32(gst.rcx) \in vmCfg.set
    /\ hx.via = "policy"

\* EDX:EAX as the guest left them for the last WRMSR
WrittenValue == Shl32(gst.rdx) \cup Low32(gst.rax)

\* the last exit was a WRMSR to IA32_MISC_ENABLE
MiscEnableWrite ==
    /\ hx.kind = "wrmsr"
    /\ Low32(gst.rcx) = MSR_IA32_MISC_ENABLE

\* C22: a guest write to IA32_MISC_ENABLE is accepted when the written value
\* equals the value a read of that MSR returns, and a write of any other
\* value is an error
C22_MiscEnableWriteChecked ==
    MiscEnableWrite =>
        IF WrittenValue = misc_enable
        THEN hx.res = "Next"
        ELSE hx.res \in HandlerErrors

\* the control register and the access type of the last control-register exit
ExitCr == hx.arg % 16
ExitCrAccessType == (hx.arg \div 16) % 4

\* C23: a control-register exit for a move to CR0, to CR3 or to CR4 is
\* handled and returns Next; any other control-register access (CR8, a move
\* from a control register, CLTS, LMSW) ends with an Unhandled error
C23_MoveToCr034Handled ==
    hx.kind = "cr" =>
        IF ExitCrAccessType = 0 /\ ExitCr \in {0, 3, 4}
        THEN hx.res = "Next"
        ELSE hx.res = "Unhandled"

\* the part of C23 the handler keeps: without the move to CR3
C23_MoveToCr04Handled ==
    hx.kind = "cr" /\ ~(ExitCrAccessType = 0 /\ ExitCr = 3) =>
        IF ExitCrAccessType = 0 /\ ExitCr \in {0, 4}
        THEN hx.res = "Next"
        ELSE hx.res = "Unhandled"

\* ---------------------------------------------------------------------
\* linux.rs: loading a kernel and running its boot processor
\* ---------------------------------------------------------------------

\* setup headers of kernel files
SetupHeaders ==
    [boot_flag : {MAGIC_AA55, 0}, header : {HDRS, 0},
     version : {BootProtocol212 - 1, BootProtocol212},
     xloadflags : 0..3, relocatable_kernel : {0, 1}]

InitLinux ==
    /\ InitDevice({[i \in Heads |-> DescW]}) /\ InitIrqPath({PhysicalRedir}) /\ InitRunning
    /\ pc = "none" /\ reason = "none" /\ space = "default" /\ vcpuCreated = FALSE
    /\ vectorSenders = FALSE /\ vectorRecv = FALSE

NextLinux ==
    \/ \E h \in SetupHeaders, f \in BOOLEAN : LoadLinux64(h, f)
    \/ \E f \in BOOLEAN : Start(f)
    \/ \E f \in BOOLEAN : EnterSpace(f)
    \/ \E f \in BOOLEAN : Setup(f)
    \/ \E r \in {"CPUID", "HLT"}, g \in GuestStates : GuestExit(r, g, FALSE)
    \/ \E f \in BOOLEAN : HandleExit(f)
    \/ Drain
    \/ \E f \in BOOLEAN, open \in BOOLEAN : Inject(f, open)
    \/ \E f \in BOOLEAN : Restore(f)
    \/ \E f \in BOOLEAN : Dump(f)

SpecLinux == InitLinux /\ [][NextLinux]_vars

\* load_linux64 has returned
Loaded == hx.kind = "load"

\* C24: load_linux64 returns an error and produces no guest thread when the
\* kernel's xloadflags lacks XLF_KERNEL_64 or lacks XLF_CAN_BE_LOADED_ABOVE_4G
C24_XloadflagsRequired ==
    /\ Loaded
    /\ \/ BitAnd(hx.arg, XLF_KERNEL_64) = 0
       \/ BitAnd(hx.arg, XLF_CAN_BE_LOADED_ABOVE_4G) = 0
    => hx.res = "Program" /\ pc = "none"

\* ---------------------------------------------------------------------
\* EPT violations in the emulated windows
\* ---------------------------------------------------------------------

\* faulting addresses: the LAPIC ID register, IOWIN of the I/O APIC, the
\* Status register of the virtio device, and an address in no window
EptGpas ==
    {APIC_BASE \cup {5}, IO_APIC_BASE \cup {4}, virtio_base \cup {4, 5, 6}, {20}}

\* faulting instructions, with ModRM 0x08 ([rax], reg = rcx) or 0x10 (reg = rdx)
EptInsns ==
    { <<139, 8>>,             \* 8b 08      mov ecx, [rax]
      <<72, 139, 16>>,        \* 48 8b 10   mov rdx, [rax]
      <<102, 139, 8>>,        \* 66 8b 08   mov cx, [rax]
      <<138, 8>>,             \* 8a 08      mov cl, [rax]
      <<15, 182, 8>>,         \* 0f b6 08   movzx ecx, byte [rax]
      <<15, 183, 8>>,         \* 0f b7 08   movzx ecx, word [rax]
      <<72, 15, 182, 16>>,    \* 48 0f b6 10  movzx rdx, byte [rax]
      <<15, 190, 8>>,         \* 0f be 08   movsx ecx, byte [rax]
      <<58, 8>>,              \* 3a 08      cmp cl, [rax]
      <<128, 0, 1>>,          \* 80 00 01   add byte [rax], 1
      <<128, 56, 1>>,         \* 80 38 01   cmp byte [rax], 1
      <<141, 8>> }            \* 8d 08      lea ecx, [rax]

\* what the device register holds
DevValues == {{0, 9, 17}, {7, 15, 31}}

\* the two opcodes of MOVZX and the size of their memory operand
IsMovzx(insn) ==
    LET d == decode_prefix(insn)
    IN  /\ Len(insn) >= d.prefix_sz + 2
        /\ insn[d.prefix_sz + 1] = 15
        /\ insn[d.prefix_sz + 2] \in {182, 183}

MovzxSize(insn) == IF insn[decode_prefix(insn).prefix_sz + 2] = 182 THEN 1 ELSE 2

InitMmio == InitLoop

NextMmio ==
    \/ \E e \in {x \in MsrExits : x.rcx = MSR_IA32_APIC_BASE}, rnd \in MsrRandom :
           MsrAccess(e.read, e.rcx, e.rdx, e.rax, rnd)
    \/ \E gpa \in EptGpas, insn \in EptInsns, val \in DevValues :
           EptViolation(gpa, insn, val)

SpecMmio == InitMmio /\ [][NextMmio]_vars

\* C25: an EPT violation inside an emulated MMIO window (LAPIC page, I/O APIC
\* page, virtio-mmio window) caused by a MOVZX load (0F B6 or 0F B7) is
\* emulated: the device read callback is called with operand size 1 or 2
\* respectively, and the handler returns Next
C25_MovzxEmulated ==
    /\ hx.kind = "ept"
    /\ hx.via \in {"lapic", "ioapic", "virtio"}
    /\ IsMovzx(hx.insn)
    => hx.size = MovzxSize(hx.insn) /\ hx.res = "Next"

\* what holds of the MOV loads: emulated with the size of the operand
MovLoadEmulated ==
    /\ hx.kind = "ept"
    /\ hx.via \in {"lapic", "ioapic"}
    /\ hx.insn \in {<<139, 8>>, <<102, 139, 8>>, <<138, 8>>, <<72, 139, 16>>}
    => hx.size \in {1, 2, 4, 8} /\ hx.res = "Next"

\* ---------------------------------------------------------------------
\* apic.rs: priorities of the local APIC
\* ---------------------------------------------------------------------

\* vectors the guest programs into the I/O APIC: one of priority class 0, two
\* of class 2 and one of class 3
ApicVectors == {5, 34, 35, 49}

\* guest states at the exits: in and out of the sti shadow
ApicGuestStates == [rip : {0}, len : {2}, ignore : {0, 1}]

InitApic == InitLoop

NextApic ==
    \/ SerialRead
    \/ IoRecv
    \/ IoSend
    \/ IoKick(FALSE)
    \/ Start(FALSE)
    \/ EnterSpace(FALSE)
    \/ Setup(FALSE)
    \/ \E r \in {"IRQ", "IRQ_WND", "MMIO", "APIC_EOI", "APIC_TPR"}, g \in ApicGuestStates :
           GuestExit(r, g, FALSE)
    \/ \E v \in ApicVectors : IoApicProgram(Com1Irq, v)
    \/ HandleExit(FALSE)
    \/ Drain
    \/ \E open \in BOOLEAN : Inject(FALSE, open)

SpecApic == InitApic /\ [][NextApic]_vars

\* C26: after any sequence of injections and EOI writes the in-service stack
\* of the local APIC is strictly increasing from bottom to top
C26_IsrStackIncreasing ==
    \A i \in 1..(Len(isr_vec) - 1) : isr_vec[i] < isr_vec[i + 1]

\* two vectors are in service, the second injected on top of the first
C26_Witness ==
    /\ Len(isr_vec) = 2
    /\ isr_vec[1] < isr_vec[2]

\* the priority class of the top of the in-service stack, 0 when it is empty
IsrTopClass == IF isr_vec = <<>> THEN 0 ELSE priority(isr_vec[Len(isr_vec)])

\* C27: after every TPR write, EOI write and injection, the priority class of
\* the PPR is the larger of the class of the TPR and the class of the top of
\* the in-service stack (0 when the stack is empty)
C27_PprIsMaxOfTprAndIsr ==
    priority(ppr) = Max({priority(tpr), IsrTopClass})

\* a vector of class 3 is in service under a TPR of class 2
C27_Witness ==
    /\ isr_vec # <<>> /\ priority(tpr) > 0
    /\ IsrTopClass > priority(tpr) /\ priority(ppr) = IsrTopClass

\* the step sets the valid bit of VMCS_CTRL_VMENTRY_IRQ_INFO
EntryWritten == ~entryValid /\ entryValid'

WindowExits ==
    {[r |-> r, g |-> g] : r \in {"IRQ", "CPUID", "MMIO", "APIC_EOI"}, g \in ApicGuestStates}
      \cup {[r |-> "IRQ_WND", g |-> [rip |-> 0, len |-> 2, ignore |-> 0]]}

\* the guest takes the interrupt-window exit
WindowExit == GuestExit("IRQ_WND", [rip |-> 0, len |-> 2, ignore |-> 0], FALSE)

\* inject_interrupt at the end of an iteration; RFLAGS.IF is still set at the
\* end of the iteration of an IRQ_WND exit
WindowInject == \E open \in BOOLEAN : (reason = "IRQ_WND" => open) /\ Inject(FALSE, open)

InitWindow == InitLoop

NextWindow ==
    \/ SerialRead
    \/ IoRecv
    \/ IoSend
    \/ IoKick(FALSE)
    \/ Start(FALSE)
    \/ EnterSpace(FALSE)
    \/ Setup(FALSE)
    \/ \E e \in WindowExits : GuestExit(e.r, e.g, FALSE)
    \/ IoApicProgram(Com1Irq, 49)
    \/ HandleExit(FALSE)
    \/ Drain
    \/ WindowInject

SpecWindow == InitWindow /\ [][NextWindow]_vars

\* the run loop of the guest thread goes on, and a guest that runs with the
\* interrupt window requested does open the window at some point
SpecWindowFair ==
    /\ SpecWindow
    /\ WF_vars(HandleExit(FALSE)) /\ WF_vars(Drain) /\ WF_vars(WindowInject)
    /\ SF_vars(WindowExit)

\* the guest runs while vector v is pending above the PPR and was not injected
PendingAbovePpr(v) == pc = "guest" /\ ~entryValid /\ get_vector_from_irr = v

\* v, or a vector above it that arrived meanwhile, is in VMENTRY_IRQ_INFO
InjectedAtLeast(v) == entryValid /\ entryVec >= v /\ entryVec \notin irr

LastIdx == IdxMod - 2

\* the queue was activated (QueueReady 0 -> 1), the worker received it and
\* has served heads 0 .. LastIdx - 1; it waits for the next notification
InitWrap ==
    /\ InitIrqPath({PhysicalRedir})
    /\ hvVm = TRUE
    /\ vmm = [o \in Owners |-> IF o = 1 THEN "held" ELSE "none"]
    /\ newResult = [o \in Owners |->
                       IF o = 1 THEN [res |-> "Ok", other |-> FALSE]
                       ELSE [res |-> "none", other |-> FALSE]]
    /\ vm = "alive" /\ serPc = "read" /\ ioPc = "recv" /\ wPc = "wait_task"
    /\ devAlive = TRUE /\ irqSenders = AllSenders
    /\ pc = "dispatch" /\ reason = "MMIO" /\ space = "vm" /\ vcpuCreated = TRUE
    /\ vectorSenders = FALSE /\ vectorRecv = FALSE
    /\ status = DriverUp /\ dri_feat = NegotiatedFeat /\ dri_feat_sel = 1 /\ qsel = 0
    /\ qready = 1 /\ virtq = [NewVirtq EXCEPT !.num = RingSize] /\ isr = 0
    /\ cfg_gen = 0
    /\ taskChan = <<>> /\ virtqChan = <<>>
    /\ wVirtq = to_hva(virtq)
    /\ current_index = LastIdx /\ avail_index = LastIdx /\ wLen = DescW.len
    /\ wHead = 0
    /\ wTaskEp = 1
    /\ availIdx = LastIdx /\ availFlags = 0
    /\ availRing = [i \in 0..(RingSize - 1) |-> 0]
    /\ descTable \in DescTables
    /\ usedIdx = LastIdx
    /\ usedRing = [i \in 0..(RingSize - 1) |-> [id |-> 0, len |-> DescW.len]]
    /\ epoch = 1 /\ lastSent = virtq /\ featAccepted = TRUE /\ evLog = <<>>
    /\ lastNotify = [value |-> 0, tick |-> 0]

NextWrap ==
    \/ \E v \in {0} : WriteQueueNotify(v)
    \/ \E h \in Heads : GuestPublish(h)
    \/ \E f \in {0, VIRTQ_AVAIL_F_NO_INTERRUPT} : GuestSetFlags(f)
    \/ \E v \in AckVals : WriteInterruptAck(v)
    \/ ServeRecvTask
    \/ ServeLoop
    \/ ServePushUsed
    \/ ServeSetIsr
    \/ ServeSendIrq
    \/ IoRecv

SpecWrap == InitWrap /\ [][NextWrap]_vars

\* the worker leaves its while loop and waits for the next notification
ServeBatchDone == wPc = "loop" /\ wPc' = "wait_task"

\* C30: whenever the worker has finished serving a notification, every head
\* the driver had published up to the avail index the worker read has been
\* given a used-ring entry, also after the 16-bit avail index wrapped: the
\* used index has caught up with that avail index.
C30_HeadsServedAcrossWrap == [][ServeBatchDone => usedIdx = avail_index]_vars

(***************************************************************************)
(* ioapic.rs: IoApic::dispatch when the guest has programmed a physical    *)
(* destination that names no vCPU of the VM.                               *)
(***************************************************************************)
\* both pins routed in physical mode to APIC id Cores, one past the last vCPU
BeyondRedir == [i \in Irqs |-> [vector |-> 32 + i, logical |-> FALSE, dest |-> Cores]]

InitRedir ==
    /\ InitDevice({[i \in Heads |-> DescW]})
    /\ InitIrqPath(RedirTables \cup {BeyondRedir}) /\ InitRunning
    /\ pc = "start" /\ reason = "none" /\ space = "default" /\ vcpuCreated = FALSE
    /\ vectorSenders = TRUE /\ vectorRecv = TRUE

SpecRedir == InitRedir /\ [][NextIrq]_vars

\* C31: whatever the redirection table holds, the dispatch thread keeps
\* running: while the vCPU's vector receiver exists, sending the vector of a
\* received IRQ never stops the thread (no index of vector_senders or
\* vcpu_ids is out of range).
C31_DispatchKeepsRunning ==
    [][(ioPc = "send" /\ ~VcpuGone) => ioPc' # "panicked"]_vars

(***************************************************************************)
(* The LAPIC timer: the guest programs LVT_TIMER, INIT_COUNT, DCR and SVR, *)
(* host time passes and the run loop takes the timer exits.                *)
(***************************************************************************)
\* the vector the guest gives the timer
TimerVector == 48

\* LVT_TIMER values: masked, one-shot, periodic, TSC-deadline
LvtTimerValues ==
    {BIT_LVT_MASKED + TimerVector, TimerVector,
     TIMER_PERIODIC * (2 ^ 17) + TimerVector, TIMER_TCS_DDL * (2 ^ 17) + TimerVector}

\* INIT_COUNT values: 0, a count of half a second at divide-by-2 and a count
\* above the divided frequency
InitCounts == {0, 6 * 1000 * 1000, 48 * 1000 * 1000}

\* DCR values: divide by 2 and divide by 1
DcrValues == {0, 11}

\* SVR values: the APIC software-disabled and enabled
SvrValues == {255, 511}

TimerStores ==
    {[offset |-> "LVT_TIMER", value |-> v] : v \in LvtTimerValues}
      \cup {[offset |-> "INIT_COUNT", value |-> v] : v \in InitCounts}
      \cup {[offset |-> "DCR", value |-> v] : v \in DcrValues}
      \cup {[offset |-> "SVR", value |-> v] : v \in SvrValues}

InitTimer == InitLoop

NextTimer ==
    \/ Start(FALSE)
    \/ EnterSpace(FALSE)
    \/ Setup(FALSE)
    \/ \E r \in {"MMIO", "VMX_TIMER"} : GuestExit(r, GuestQuiet, FALSE)
    \/ \E w \in TimerStores : ApicStore(w.offset, w.value)
    \/ HandleExit(FALSE)
    \/ Drain
    \/ \E open \in BOOLEAN : Inject(FALSE, open)
    \/ Tick

SpecTimer == InitTimer /\ [][NextTimer]_vars

\* the run loop handles VMX_REASON_VMX_TIMER_EXPIRED
TimerFires == pc = "dispatch" /\ reason = "VMX_TIMER" /\ pc' = "drain"

\* C32: fire_timer_interrupt sets the IRR bit of the LVT_TIMER vector; with a
\* non-zero timer_period the new deadline is the deadline that expired plus
\* one period, with timer_period 0 the deadline becomes None.
C32_RearmAddsPeriodToDeadline ==
    [][TimerFires =>
         /\ lvt_vec(lapic.lvt.timer) \in irr'
         /\ lapic'.next_timer =
                IF lapic.timer_period = 0 THEN NoTimer
                ELSE SomeTimer(lapic.next_timer.v + lapic.timer_period)]_vars

\* the LVT timer entry is masked or INIT_COUNT is 0
TimerOff == lvt_masked(lapic.lvt.timer) \/ lapic.init_count = 0

\* C33: whenever the LVT timer entry is masked or INIT_COUNT is 0, the
\* deadline is None and timer_period is 0, and the exit the run loop is
\* handling is not a timer expiry.
C33_MaskedTimerDisabled ==
    TimerOff =>
        /\ ~lapic.next_timer.some
        /\ lapic.timer_period = 0
        /\ ~(pc = "dispatch" /\ reason = "VMX_TIMER")

\* the timer has fired at least once and was then masked with a count left
\* in INIT_COUNT
C33_Witness ==
    /\ lvt_masked(lapic.lvt.timer) /\ lapic.init_count > 0
    /\ TimerVector \in irr \/ (isr_vec # <<>> /\ isr_vec[Len(isr_vec)] = TimerVector)
    /\ ~lapic.next_timer.some

\* C34: a step that is not the reset begun by a write of 0 to Status never
\* clears a status bit that is set: between two resets the stored status
\* bits only grow.
C34_StatusBitsOnlyGrow == [][pc' # "reset" => BitClear(status, status') = 0]_vars

\* C35: once a Status write with FEATURES_OK has passed verify_feat, no step
\* other than the reset begun by a write of 0 to Status changes dri_feat.
C35_AcceptedFeaturesFrozen ==
    [][(featAccepted /\ pc' # "reset") => dri_feat' = dri_feat]_vars

(***************************************************************************)
(* vmexit.rs: long-mode activation.  The guest writes IA32_EFER with WRMSR *)
(* and moves values to CR0 and CR4.                                        *)
(***************************************************************************)
\* values the guest writes to IA32_EFER: msr_efer stores EDX:EAX as it is
EferValues == {{}, EFER_LME, EFER_LME \cup EFER_LMA}

\* values the guest moves to CR0 and CR4
LongModeCrValues == {X86_CR0_PE, X86_CR0_PE \cup X86_CR0_PG, X86_CR4_PAE, {}}

\* moves to CR0 and to CR4 from RAX
LongModeQuals == {0, 4}

InitLongMode == InitLoop

NextLongMode ==
    \/ \E list \in {"Apply", "Except"}, policy \in {"GP", "AllOne"} :
           SetMsrPolicy(list, {}, policy)
    \/ \E v \in EferValues, read \in BOOLEAN :
           MsrAccess(read, MSR_EFER, {}, IF read THEN {} ELSE v, {1})
    \/ \E qual \in LongModeQuals, value \in LongModeCrValues : CrAccess(qual, value)

SpecLongMode == InitLongMode /\ [][NextLongMode]_vars

\* CR0.PE, CR0.PG, CR4.PAE and EFER.LME are all set
LongModeBits ==
    /\ X86_CR0_PE \subseteq gst.cr0 /\ X86_CR0_PG \subseteq gst.cr0
    /\ X86_CR4_PAE \subseteq gst.cr4 /\ EFER_LME \subseteq gst.efer

\* C36: right after a handled move to CR0 or CR4, EFER.LMA and the VM-entry
\* control GUEST_IA32E are both set if CR0.PE, CR0.PG, CR4.PAE and EFER.LME
\* are all set, and both clear otherwise.
C36_LongModeRecomputed ==
    (hx.kind = "cr" /\ hx.res = "Next") =>
        /\ (EFER_LMA \subseteq gst.efer) <=> LongModeBits
        /\ gst.ia32e <=> LongModeBits

\* the vectors whose ISR bit is set: set_isr and clear_isr follow the stack
IsrBits == {isr_vec[i] : i \in DOMAIN isr_vec}

\* the run loop handles a store to the EOI register
EoiWrite == pc = "dispatch" /\ reason = "APIC_EOI" /\ pc' = "drain"

\* C37: an EOI write with a non-empty in-service stack pops the vector on top
\* of the stack, which is the highest vector in service, clears its ISR bit
\* and recomputes the PPR from the TPR and the new top; the other in-service
\* vectors, the IRR and the TPR are unchanged.
C37_EoiPopsTop ==
    [][(EoiWrite /\ isr_vec # <<>>) =>
         LET top == isr_vec[Len(isr_vec)]
             rest == SubSeq(isr_vec, 1, Len(isr_vec) - 1)
             below == IF rest = <<>> THEN 0 ELSE rest[Len(rest)]
         IN  /\ top = Max(IsrBits)
             /\ isr_vec' = rest
             /\ IsrBits' = IsrBits \ {top}
             /\ ppr' = IF priority(tpr) >= priority(below) THEN tpr
                       ELSE priority(below) * 16
             /\ irr' = irr
             /\ tpr' = tpr]_vars

\* an EOI has retired the upper of two nested vectors: the lower one is
\* still in service and sets the class of the PPR
C37_Witness ==
    /\ pc = "drain" /\ reason = "APIC_EOI"
    /\ Len(isr_vec) = 1
    /\ priority(ppr) = priority(isr_vec[1])

(***************************************************************************)
(* apic.rs: Apic::reset applied to a LAPIC the guest has programmed and    *)
(* that has taken timer interrupts.                                        *)
(***************************************************************************)
\* stores that take registers away from their reset values
ResetStores ==
    {[offset |-> "LVT_TIMER", value |-> TIMER_PERIODIC * (2 ^ 17) + TimerVector],
     [offset |-> "INIT_COUNT", value |-> 6 * 1000 * 1000],
     [offset |-> "DCR", value |-> 11],
     [offset |-> "SVR", value |-> 511],
     [offset |-> "DFR", value |-> 0],
     [offset |-> "ICR0", value |-> 17664],
     [offset |-> "LVT_LINT0", value |-> 1792]}

InitReset == InitLoop

NextReset ==
    \/ Start(FALSE)
    \/ EnterSpace(FALSE)
    \/ Setup(FALSE)
    \/ \E r \in {"MMIO", "VMX_TIMER"} : GuestExit(r, GuestQuiet, FALSE)
    \/ \E w \in ResetStores : ApicStore(w.offset, w.value)
    \/ ApicReset
    \/ HandleExit(FALSE)
    \/ Drain
    \/ \E open \in BOOLEAN : Inject(FALSE, open)
    \/ Tick

SpecReset == InitReset /\ [][NextReset]_vars

\* C38: from whatever state the LAPIC is in, after reset ID = id << 24,
\* VER = 0x10 | (6 << 16), DFR = 0xffffffff, SVR = 0xff, every DWORD of ISR,
\* IRR and TMR is zero, every LVT entry is 0x10000, and ICR, DCR, INIT_COUNT
\* and CURR_COUNT are zero.
C38_ResetState ==
    LET r == reset(LapicState, 0, now)
    IN  /\ r.page.id = 0
        /\ r.page.ver = 16 + 6 * 65536
        /\ r.page.dfr = 0..31
        /\ r.page.svr = 255
        /\ r.isr = {} /\ r.irr = {} /\ r.tmr = {}
        /\ \A n \in LvtNames : r.page.lvt[n] = 65536
        /\ r.page.icr0 = 0 /\ r.page.icr32 = 0 /\ r.page.dcr = 0
        /\ r.page.init_count = 0 /\ r.page.curr_count = 0

\* ---------------------------------------------------------------------
\* lib.rs: EPT faults outside every emulated window
\* ---------------------------------------------------------------------

\* faulting addresses: 0, two addresses that no window claims and one in the
\* LAPIC page
EptFaultGpas == {{}, {20}, {21}, APIC_BASE \cup {5}}

EptFaultInsns == {<<139, 8>>, <<138, 8>>}

InitEpt == InitLoop

NextEpt ==
    \/ \E e \in {x \in MsrExits : x.rcx = MSR_IA32_APIC_BASE}, rnd \in MsrRandom :
           MsrAccess(e.read, e.rcx, e.rdx, e.rax, rnd)
    \/ \E gpa \in EptFaultGpas, insn \in EptFaultInsns, val \in DevValues :
           EptViolation(gpa, insn, val)

SpecEpt == InitEpt /\ [][NextEpt]_vars

\* run_on_inner has returned the error of the fault count
EptAborted == hx.kind = "ept" /\ hx.via = "none" /\ hx.res = "Unhandled"

\* C39: in a debug build the run loop returns the hard error exactly when the
\* last 11 EPT faults that no MMIO window claimed were all at the same
\* guest-physical address; fewer than 11 never end the loop
C39_AbortAtEleventhFault ==
    hx.kind = "ept" /\ hx.via = "none" => (EptAborted <=> eptRun.n = 11)

\* what holds of the abort: never before the eleventh fault of a run
EptAbortNeedsEleven == EptAborted => eptRun.n >= 11

\* what holds of the abort: at the twelfth fault of a run, or at the eleventh
\* when the address is the initial value of last_ept_gpa
EptAbortAtTwelfth ==
    hx.kind = "ept" /\ hx.via = "none"
    => (EptAborted <=> \/ eptRun.n = 12
                       \/ eptRun.n = 11 /\ eptRun.gpa = {} /\ ept_count = 11)

\* ---------------------------------------------------------------------
\* hv/mod.rs: from a capability MSR to a VMCS control field
\* ---------------------------------------------------------------------

\* cap2ctrl of vthread-rs: (ctrl | (cap & 0xffffffff)) & (cap >> 32)
cap2ctrl_masked(cap, ctrl) ==
    [r |-> (ctrl \cup Low32(cap)) \cap High32(cap), res |-> "Ok"]

\* cap2ctrl of xhype: ctrl | low, and debug_assert_eq!(r & high, r)
cap2ctrl(cap, ctrl) ==
    LET r == ctrl \cup Low32(cap)
    IN  [r |-> r,
         res |-> IF debug_assertions /\ r \cap High32(cap) # r THEN "Panic" ELSE "Ok"]

\* a helper that takes the zero setting and never looks at it
gen_exec_ctrl_zero_ignored(cap, one, zero) == cap2ctrl(cap, one)

\* gen_exec_ctrl(cap, one_setting, zero_setting): asserts that the one-bits
\* are allowed (in cap >> 32) and that the zero-bits are not forced (not in
\* the low half of cap), then resolves the field as cap2ctrl does
gen_exec_ctrl(cap, one, zero) ==
    IF one \cap High32(cap) # one \/ zero \cap Low32(cap) # {}
    THEN [r |-> {}, res |-> "Panic"]
    ELSE cap2ctrl(cap, one)

\* control bits the callers set (bit 7 is CPU_BASED_HLT) and the capability
\* MSRs over them: any must-be-one half, any may-be-one half
CtrlBits == {0, 7, 31}
CapValues == SUBSET (CtrlBits \cup {b + 32 : b \in CtrlBits})

\* vmx_read_capability and the settings of the caller: the arguments of the
\* next call of the helper
ReadCapability(cap, one, zero) ==
    /\ vmcs_ctrl.res = "none"
    /\ vmcs_ctrl' = [cap |-> cap, one |-> one, zero |-> zero, r |-> {}, res |-> "call"]
    /\ UNCHANGED <<vmCfg, gst, hx, eptVars>>
    /\ ExitFrame

\* the call of the helper while the seed of a vCPU is built
GenExecCtrl ==
    /\ vmcs_ctrl.res = "call"
    /\ LET c == gen_exec_ctrl(vmcs_ctrl.cap, vmcs_ctrl.one, vmcs_ctrl.zero)
       IN  vmcs_ctrl' = [vmcs_ctrl EXCEPT !.r = c.r, !.res = c.res]
    /\ UNCHANGED <<vmCfg, gst, hx, eptVars>>
    /\ ExitFrame

InitCtrl == InitLoop

NextCtrl ==
    \/ \E cap \in CapValues, one \in SUBSET CtrlBits, zero \in SUBSET CtrlBits :
           ReadCapability(cap, one, zero)
    \/ GenExecCtrl

SpecCtrl == InitCtrl /\ [][NextCtrl]_vars

\* the helper returned a value for settings that do not overlap
CtrlResolved == vmcs_ctrl.res = "Ok" /\ vmcs_ctrl.one \cap vmcs_ctrl.zero = {}

CtrlMasked == cap2ctrl_masked(vmcs_ctrl.cap, vmcs_ctrl.one).r

\* what holds of both crates: where the helper returns, the two agree
CtrlCratesAgree == CtrlResolved => CtrlMasked = vmcs_ctrl.r

\* a capability whose must-be-one bits are all allowed
CapValid(cap) == Low32(cap) \subseteq High32(cap)

\* what holds of a valid capability: the helper returns a value whenever the
\* one-bits are allowed and the zero-bits are not forced, so the assertion
\* of cap2ctrl is only met by a capability that is not valid
CtrlValidResolves ==
    /\ vmcs_ctrl.res \in {"Ok", "Panic"}
    /\ CapValid(vmcs_ctrl.cap)
    /\ vmcs_ctrl.one \subseteq High32(vmcs_ctrl.cap)
    /\ vmcs_ctrl.zero \cap Low32(vmcs_ctrl.cap) = {}
    => vmcs_ctrl.res = "Ok" /\ vmcs_ctrl.r = vmcs_ctrl.one \cup Low32(vmcs_ctrl.cap)

====
